---- MODULE Spec2Model ----
(***************************************************************************)
(* Shift-allowance client summary: the full summary service                *)
(* (services/client_summary_service.py), the Excel export service          *)
(* (services/client_summary_download_service.py) and the latest-month      *)
(* disk cache they share.                                                  *)
(*                                                                         *)
(* Python dicts are insertion-ordered: a dict is a sequence of [k, v]      *)
(* entries.  A date (always the first of a month) is [year, month].        *)
(* days and amount are integers here, so float sums are exact.             *)
(***************************************************************************)
EXTENDS Integers, Sequences, FiniteSets, TLC

VARIABLES
    db,         \* the data store: the window [lo, hi] of the fact stream it holds
    now,        \* the clock, in seconds
    cache,      \* the disk cache: key -> <<>> or <<[value, expire_time]>>
    files,      \* the export directory: a dict path -> rows of the sheet
    orphans,    \* the files removed from the directory that a request still
                \* holds open
    asof,       \* history: key -> <<>> or <<[db, time, read]>>, the store contents
                \* and the time at the entry's write, and the time the entry's
                \* data was read from the store
    last,       \* history: the request that has just completed, with the state
                \* it started from; <<>> after any other step
    reqs,       \* the requests in flight, when requests run step by step
    dbChanges   \* the number of data-store changes so far

vars == <<db, now, cache, files, orphans, asof, last, reqs, dbChanges>>

(***************************************************************************)
(* Strings                                                                 *)
(***************************************************************************)
UpperChars == <<"A","B","C","D","E","F","G","H","I","J","K","L","M",
                "N","O","P","Q","R","S","T","U","V","W","X","Y","Z">>
LowerChars == <<"a","b","c","d","e","f","g","h","i","j","k","l","m",
                "n","o","p","q","r","s","t","u","v","w","x","y","z">>

LowerChar(c) ==
    IF \E i \in DOMAIN UpperChars : UpperChars[i] = c
    THEN LowerChars[CHOOSE i \in DOMAIN UpperChars : UpperChars[i] = c]
    ELSE c

UpperChar(c) ==
    IF \E i \in DOMAIN LowerChars : LowerChars[i] = c
    THEN UpperChars[CHOOSE i \in DOMAIN LowerChars : LowerChars[i] = c]
    ELSE c

RECURSIVE Lower(_)
\* str.lower()
Lower(s) ==
    IF Len(s) = 0 THEN ""
    ELSE LowerChar(SubSeq(s, 1, 1)) \o Lower(SubSeq(s, 2, Len(s)))

RECURSIVE Upper(_)
\* str.upper()
Upper(s) ==
    IF Len(s) = 0 THEN ""
    ELSE UpperChar(SubSeq(s, 1, 1)) \o Upper(SubSeq(s, 2, Len(s)))

RECURSIVE Strip(_)
\* str.strip(): leading and trailing blanks removed
Strip(s) ==
    IF Len(s) = 0 THEN ""
    ELSE IF SubSeq(s, 1, 1) = " " THEN Strip(SubSeq(s, 2, Len(s)))
    ELSE IF SubSeq(s, Len(s), Len(s)) = " " THEN Strip(SubSeq(s, 1, Len(s) - 1))
    ELSE s

RECURSIVE Like(_, _)
\* SQL: s LIKE pattern, with no ESCAPE clause: '%' stands for any run of
\* characters and '_' for any one character
Like(s, pattern) ==
    IF pattern = "" THEN s = ""
    ELSE IF SubSeq(pattern, 1, 1) = "%"
    THEN \/ Like(s, SubSeq(pattern, 2, Len(pattern)))
         \/ s # "" /\ Like(SubSeq(s, 2, Len(s)), pattern)
    ELSE /\ s # ""
         /\ SubSeq(pattern, 1, 1) \in {"_", SubSeq(s, 1, 1)}
         /\ Like(SubSeq(s, 2, Len(s)), SubSeq(pattern, 2, Len(pattern)))

\* SQL: col LIKE '%sub%'; the text of `sub` is not escaped, so its '%' and
\* '_' are wildcards
Contains(s, sub) == Like(s, "%" \o sub \o "%")

Digits == <<"0","1","2","3","4","5","6","7","8","9">>

IsDigit(c) == \E i \in DOMAIN Digits : Digits[i] = c

DigitVal(c) == (CHOOSE i \in DOMAIN Digits : Digits[i] = c) - 1

\* str.isdigit(): non-empty, every character a digit
IsDigits(s) == Len(s) > 0 /\ \A i \in 1..Len(s) : IsDigit(SubSeq(s, i, i))

RECURSIVE ParseNat(_)
\* the value of a run of digits and underscores
ParseNat(s) ==
    IF Len(s) = 0 THEN 0
    ELSE IF SubSeq(s, Len(s), Len(s)) = "_" THEN ParseNat(SubSeq(s, 1, Len(s) - 1))
    ELSE 10 * ParseNat(SubSeq(s, 1, Len(s) - 1)) + DigitVal(SubSeq(s, Len(s), Len(s)))

\* the digits of an int() literal: digits, with single underscores between
\* them
IsIntDigits(s) ==
    /\ Len(s) > 0
    /\ IsDigit(SubSeq(s, 1, 1)) /\ IsDigit(SubSeq(s, Len(s), Len(s)))
    /\ \A i \in 1..Len(s) : IsDigit(SubSeq(s, i, i)) \/ SubSeq(s, i, i) = "_"
    /\ \A i \in 1..(Len(s) - 1) : ~(SubSeq(s, i, i) = "_" /\ SubSeq(s, i + 1, i + 1) = "_")

Pad2(n) == IF n < 10 THEN "0" \o ToString(n) ELSE ToString(n)

\* date.strftime("%Y-%m") and f"{d:%Y-%m}": the C library's %Y does not pad
\* a year below 1000
FormatYM(d) == ToString(d.year) \o "-" \o Pad2(d.month)

Date(y, m) == [year |-> y, month |-> m]

\* date ordering (both dates are the first of their month)
DateLE(a, b) == a.year < b.year \/ (a.year = b.year /\ a.month <= b.month)

(***************************************************************************)
(* Insertion-ordered dicts                                                 *)
(***************************************************************************)
DictHas(d, k) == \E i \in DOMAIN d : d[i].k = k

DictIdx(d, k) == CHOOSE i \in DOMAIN d : d[i].k = k

DictGet(d, k) == d[DictIdx(d, k)].v

\* d.get(k, default)
DictGetOr(d, k, default) == IF DictHas(d, k) THEN DictGet(d, k) ELSE default

\* d[k] = v: a new key goes last, an existing key keeps its place
DictSet(d, k, v) ==
    IF DictHas(d, k)
    THEN [d EXCEPT ![DictIdx(d, k)] = [k |-> k, v |-> v]]
    ELSE Append(d, [k |-> k, v |-> v])

DictKeys(d) == [i \in DOMAIN d |-> d[i].k]

DictValues(d) == [i \in DOMAIN d |-> d[i].v]

(***************************************************************************)
(* The data store                                                          *)
(***************************************************************************)
ShiftTypes == <<"A", "B", "C", "PRIME">>

\* ShiftsAmount rows: (shift_type, payroll_year, amount)
RateTable ==
    << [shift_type |-> "A",     payroll_year |-> 2024, amount |-> 500],
       [shift_type |-> "B",     payroll_year |-> 2024, amount |-> 300],
       [shift_type |-> "PRIME", payroll_year |-> 2024, amount |-> 700],
       [shift_type |-> "A",     payroll_year |-> 2023, amount |-> 400] >>

Map(t, n) == [shift_type |-> t, days |-> n]

Fact(ym, cl, dp, e, nm, am, ms) ==
    [duration_month |-> ym, client |-> cl, department |-> dp, emp_id |-> e,
     emp_name |-> nm, account_manager |-> am, maps |-> ms]

\* The stream of ShiftAllowances rows (each with its ShiftMapping rows) that
\* uploads add to the store, in upload order.
FactStream ==
    << Fact(Date(2024, 5),  "Zen",  "Ops", "E3", "Eve", "Dee", <<>>),
       Fact(Date(2024, 6),  "Acme", "Ops", "E1", "Ann", "Bob",
            <<Map("A", 2), Map("PRIME", 1)>>),
       Fact(Date(2024, 6),  "Acme", "Dev", "E1", "Ann", "Bob", <<Map("B", 3)>>),
       Fact(Date(2024, 6),  "Zen",  "Ops", "E2", "Cy",  "Dee",
            <<Map("A", 1), Map("C", 2)>>),
       Fact(Date(2023, 12), "acme", "Ops", "E2", "Cy",  "Bob", <<Map("A", 4)>>),
       Fact(Date(2024, 6),  "Acme", "Ops", "E2", "Cy",  "Bob", <<Map("A", 10)>>),
       Fact(Date(2024, 4),  "ZEN",  "OPS", "E2", "Cy",  "Dee", <<Map("B", 1)>>),
       Fact(Date(2023, 5),  " Zen", "",    "E3", "Eve", "Dee", <<Map("A", 1)>>),
       Fact(Date(2024, 8),  "Acme", "Ops", "E1", "Ann", "Bob", <<Map("A", 1)>>) >>

\* The store holds rows lo+1..hi of the stream, in that order.
StoreRows(s) == SubSeq(FactStream, s.lo + 1, s.hi)

(***************************************************************************)
(* Request payloads.  A field that may be absent is a string ("" when      *)
(* absent or empty), a list (<<>> when absent or empty) or a tagged value. *)
(*   clients:          [tag: "none" | "str" | "dict", s, d]                *)
(*                     d is a dict client -> list of departments           *)
(*   selected_year:    [tag: "none" | "int" | "str", n, s]                 *)
(*   account_manager:  [tag: "none" | "str" | "list", s, l]                *)
(* client, department, start and limit are read by the search route only   *)
(* (start and limit with the route's defaults 0 and 10).                   *)
(***************************************************************************)
NoClients == [tag |-> "none", s |-> "", d |-> <<>>]
ClientsStr(x) == [tag |-> "str", s |-> x, d |-> <<>>]
ClientsDict(x) == [tag |-> "dict", s |-> "", d |-> x]

NoYear == [tag |-> "none", n |-> 0, s |-> ""]
YearInt(y) == [tag |-> "int", n |-> y, s |-> ""]
YearStr(x) == [tag |-> "str", n |-> 0, s |-> x]

NoManager == [tag |-> "none", s |-> "", l |-> <<>>]
ManagerStr(x) == [tag |-> "str", s |-> x, l |-> <<>>]
ManagerList(x) == [tag |-> "list", s |-> "", l |-> x]

EmptyPayload ==
    [clients |-> NoClients, selected_year |-> NoYear, selected_months |-> <<>>,
     selected_quarters |-> <<>>, start_month |-> "", end_month |-> "",
     emp_id |-> "", account_manager |-> NoManager,
     client |-> "", department |-> "", start |-> 0, limit |-> 10]

\* Python truthiness of each field
ClientsTruthy(c) ==
    \/ c.tag = "str" /\ c.s # ""
    \/ c.tag = "dict" /\ c.d # <<>>

YearTruthy(y) ==
    \/ y.tag = "int" /\ y.n # 0
    \/ y.tag = "str" /\ y.s # ""

ManagerTruthy(m) ==
    \/ m.tag = "str" /\ m.s # ""
    \/ m.tag = "list" /\ m.l # <<>>

\* is_default_latest_month_request with the emp_id test left out
MutDefaultIgnoresEmp(p) ==
    /\ (p.clients.tag = "none" \/ (p.clients.tag = "str" /\ p.clients.s = "ALL"))
    /\ ~YearTruthy(p.selected_year)
    /\ p.selected_months = <<>>
    /\ p.selected_quarters = <<>>
    /\ p.start_month = ""
    /\ p.end_month = ""
    /\ ~ManagerTruthy(p.account_manager)

\* is_default_latest_month_request: an empty payload satisfies the second
\* disjunct as well, so `not payload` adds no case.
is_default_latest_month_request(p) ==
    /\ (p.clients.tag = "none" \/ (p.clients.tag = "str" /\ p.clients.s = "ALL"))
    /\ ~YearTruthy(p.selected_year)
    /\ p.selected_months = <<>>
    /\ p.selected_quarters = <<>>
    /\ p.start_month = ""
    /\ p.end_month = ""
    /\ p.emp_id = ""
    /\ ~ManagerTruthy(p.account_manager)

(***************************************************************************)
(* Results: an HTTP status with a body or an error detail                  *)
(***************************************************************************)
Ok(b) == [status |-> 200, body |-> b]
Err(code, msg) == [status |-> code, detail |-> msg]
IsOk(r) == r.status = 200

\* date.today(): the clock of the model spans a few days of this month
Today == Date(2024, 7)

\* validate_year
validate_year(year) ==
    IF year <= 0 THEN Err(400, "selected_year must be greater than 0")
    ELSE IF year > Today.year THEN Err(400, "selected_year cannot be in the future")
    ELSE Ok(year)

\* strptime(value, "%Y-%m"): four digits, "-", a month 1..12 of one or two
\* digits; the year of a date is at least 1
ValidYYYYMM(s) ==
    /\ Len(s) \in {6, 7}
    /\ IsDigits(SubSeq(s, 1, 4))
    /\ SubSeq(s, 5, 5) = "-"
    /\ IsDigits(SubSeq(s, 6, Len(s)))
    /\ ParseNat(SubSeq(s, 6, Len(s))) \in 1..12
    /\ ParseNat(SubSeq(s, 1, 4)) >= 1

parse_yyyy_mm(value) ==
    IF ValidYYYYMM(value)
    THEN Ok(Date(ParseNat(SubSeq(value, 1, 4)), ParseNat(SubSeq(value, 6, Len(value)))))
    ELSE Err(400, "Invalid month format. Expected YYYY-MM")

quarter_to_months(quarter) ==
    LET key == Strip(Upper(quarter)) IN
    IF key = "Q1" THEN Ok(<<1, 2, 3>>)
    ELSE IF key = "Q2" THEN Ok(<<4, 5, 6>>)
    ELSE IF key = "Q3" THEN Ok(<<7, 8, 9>>)
    ELSE IF key = "Q4" THEN Ok(<<10, 11, 12>>)
    ELSE Err(400, "Invalid quarter (expected Q1-Q4)")

\* the month after `current`, as the loop of month_range computes it
NextMonth(current) ==
    Date(current.year + (current.month \div 12), (current.month % 12) + 1)

RECURSIVE MonthsFrom(_, _)
MonthsFrom(current, end) ==
    IF DateLE(current, end)
    THEN <<current>> \o MonthsFrom(NextMonth(current), end)
    ELSE <<>>

\* the loop steps once past `end`; date.replace raises ValueError for a
\* year after 9999 (datetime.MAXYEAR)
month_range(start, end) ==
    IF ~DateLE(start, end) THEN Err(400, "start_month cannot be after end_month")
    ELSE IF NextMonth(end).year > 9999 THEN Err(500, "ValueError: year 10000 is out of range")
    ELSE Ok(MonthsFrom(start, end))

empty_shift_totals == [t \in {ShiftTypes[i] : i \in DOMAIN ShiftTypes} |-> 0]

(***************************************************************************)
(* normalize_clients: (normalized_clients, client_name_map, dept_name_map) *)
(***************************************************************************)
RECURSIVE NormDepts(_, _, _)
\* the inner loop over one client's departments: st = [depts_lc, dept_name_map]
NormDepts(client_lc, depts, st) ==
    IF depts = <<>> THEN st
    ELSE LET dept == Head(depts)
             dept_lc == Lower(dept)
         IN NormDepts(client_lc, Tail(depts),
                [depts_lc |-> Append(st.depts_lc, dept_lc),
                 dept_name_map |-> DictSet(st.dept_name_map, <<client_lc, dept_lc>>, dept)])

RECURSIVE NormClients(_, _)
NormClients(items, acc) ==
    IF items = <<>> THEN acc
    ELSE LET client == Head(items).k
             client_lc == Lower(client)
             inner == NormDepts(client_lc, Head(items).v,
                          [depts_lc |-> <<>>, dept_name_map |-> acc.dept_name_map])
         IN NormClients(Tail(items),
                [normalized_clients |->
                     DictSet(acc.normalized_clients, client_lc, inner.depts_lc),
                 client_name_map |-> DictSet(acc.client_name_map, client_lc, client),
                 dept_name_map |-> inner.dept_name_map])

NoNames == [normalized_clients |-> <<>>, client_name_map |-> <<>>, dept_name_map |-> <<>>]

normalize_clients(clients_payload) ==
    IF ~ClientsTruthy(clients_payload) \/ clients_payload = ClientsStr("ALL")
    THEN Ok(NoNames)
    ELSE IF clients_payload.tag # "dict"
    THEN Err(400, "clients must be 'ALL' or {client: [departments]}")
    ELSE Ok(NormClients(clients_payload.d, NoNames))

(***************************************************************************)
(* Queries                                                                 *)
(***************************************************************************)
\* get_latest_month: max(duration_month) over ShiftAllowances
MaxMonth(rows) ==
    LET ds == {rows[i].duration_month : i \in DOMAIN rows}
    IN CHOOSE d \in ds : \A e \in ds : DateLE(e, d)

get_latest_month(rows) ==
    IF rows = <<>> THEN Err(404, "No data available in database")
    ELSE Ok(MaxMonth(rows))

\* the outer join to ShiftsAmount on (shift_type, payroll_year = year of the
\* fact's duration month): one row per matching rate, or one row with amount
\* NULL (<<>>) when no rate matches
RateRows(a, m) ==
    LET hit == SelectSeq(RateTable, LAMBDA r :
                   r.shift_type = m.shift_type /\ r.payroll_year = a.duration_month.year)
        row(amt) == [dm |-> a.duration_month, client |-> a.client, dept |-> a.department,
                     eid |-> a.emp_id, ename |-> a.emp_name, acc_mgr |-> a.account_manager,
                     stype |-> m.shift_type, days |-> m.days, amt |-> amt]
    IN IF hit = <<>> THEN << row(<<>>) >>
       ELSE [i \in DOMAIN hit |-> row(<<hit[i].amount>>)]

RECURSIVE MapRows(_, _)
\* the inner join to ShiftMapping: an allowance without mappings yields no row
MapRows(a, ms) ==
    IF ms = <<>> THEN <<>>
    ELSE RateRows(a, Head(ms)) \o MapRows(a, Tail(ms))

RECURSIVE JoinRows(_)
JoinRows(allowances) ==
    IF allowances = <<>> THEN <<>>
    ELSE MapRows(Head(allowances), Head(allowances).maps) \o JoinRows(Tail(allowances))

build_base_query(rows) == JoinRows(rows)

\* the client/department predicate built from normalized_clients
ClientFilter(a, normalized_clients) ==
    \/ normalized_clients = <<>>
    \/ \E i \in DOMAIN normalized_clients :
          LET client_lc == normalized_clients[i].k
              depts_lc == normalized_clients[i].v
          IN /\ Lower(a.client) = client_lc
             /\ \/ depts_lc = <<>>
                \/ \E j \in DOMAIN depts_lc : Lower(a.department) = depts_lc[j]

EmpFilter(a, emp_id) == emp_id = "" \/ Lower(a.emp_id) = Lower(emp_id)

\* the account_manager predicate: a list keeps its non-blank entries and adds
\* no predicate when none is left
ManagerFilter(a, account_manager) ==
    IF ~ManagerTruthy(account_manager) THEN TRUE
    ELSE IF account_manager.tag = "list"
    THEN LET ams == SelectSeq(account_manager.l, LAMBDA am : Strip(am) # "")
         IN \/ ams = <<>>
            \/ \E i \in DOMAIN ams :
                  Contains(Lower(a.account_manager), Lower(Strip(ams[i])))
    ELSE Contains(Lower(a.account_manager), Lower(Strip(account_manager.s)))

\* or_() over the months of date_list; or_() of no clause adds no criterion
DateFilter(a, date_list) ==
    \/ date_list = <<>>
    \/ \E i \in DOMAIN date_list : date_list[i] = a.duration_month

\* query.all(): the filtered join, rows in storage order
QueryAll(rows, payload, names, date_list) ==
    build_base_query(
        SelectSeq(rows, LAMBDA a :
            /\ ClientFilter(a, names.normalized_clients)
            /\ EmpFilter(a, payload.emp_id)
            /\ ManagerFilter(a, payload.account_manager)
            /\ DateFilter(a, date_list)))

(***************************************************************************)
(* Period resolution (client_summary_service, lines 186-216)               *)
(***************************************************************************)
\* int(x) of a string: surrounding blanks are dropped, a sign is accepted,
\* and so are single underscores between digits
IntOfStr(x) ==
    LET t == Strip(x)
        signed == Len(t) > 1 /\ SubSeq(t, 1, 1) \in {"-", "+"}
        digits == IF signed THEN SubSeq(t, 2, Len(t)) ELSE t
    IN IF ~IsIntDigits(digits) THEN Err(500, "ValueError: invalid literal for int()")
       ELSE Ok((IF signed /\ SubSeq(t, 1, 1) = "-" THEN -1 ELSE 1) * ParseNat(digits))

RECURSIVE SelectedMonthDates(_, _)
\* [date(int(selected_year), int(m), 1) for m in selected_months]: int() of a
\* non-numeric token and date() of a month outside 1..12 raise ValueError
SelectedMonthDates(year, tokens) ==
    IF tokens = <<>> THEN Ok(<<>>)
    ELSE LET m == IntOfStr(Head(tokens))
             rest == SelectedMonthDates(year, Tail(tokens))
         IN IF ~IsOk(m) THEN m
            ELSE IF m.body \notin 1..12
            THEN Err(500, "ValueError: month must be in 1..12")
            ELSE IF ~IsOk(rest) THEN rest
            ELSE Ok(<<Date(year, m.body)>> \o rest.body)

RECURSIVE QuarterMap(_, _, _)
\* quarter_map[f"{mlist[0]:%Y-%m} - {mlist[-1]:%Y-%m}"] = mlist, per quarter
QuarterMap(year, quarters, acc) ==
    IF quarters = <<>> THEN Ok(acc)
    ELSE LET ms == quarter_to_months(Head(quarters)) IN
         IF ~IsOk(ms) THEN ms
         ELSE LET mlist == [i \in 1..3 |-> Date(year, ms.body[i])]
                  label == FormatYM(mlist[1]) \o " - " \o FormatYM(mlist[3])
              IN QuarterMap(year, Tail(quarters), DictSet(acc, label, mlist))

IntOfYear(selected_year) ==
    IF selected_year.tag = "none" THEN Err(500, "TypeError: int() argument is None")
    ELSE IF selected_year.tag = "int" THEN Ok(selected_year.n)
    ELSE IntOfStr(selected_year.s)

\* validate_year(int(selected_year))
CheckedYear(selected_year) ==
    IF ~IsOk(IntOfYear(selected_year)) THEN IntOfYear(selected_year)
    ELSE validate_year(IntOfYear(selected_year).body)

Resolved(months, quarter_map) == Ok([months |-> months, quarter_map |-> quarter_map])

\* the months and the quarter map of a request; `rows` is the store as the
\* max-duration-month query sees it
ResolvePeriods(payload, rows) ==
    IF payload.start_month # "" /\ payload.end_month # ""
    THEN LET s == parse_yyyy_mm(payload.start_month)
             e == parse_yyyy_mm(payload.end_month)
         IN IF ~IsOk(s) THEN s
            ELSE IF ~IsOk(e) THEN e
            ELSE LET r == month_range(s.body, e.body)
                 IN IF IsOk(r) THEN Resolved(r.body, <<>>) ELSE r
    ELSE IF payload.selected_months # <<>>
    THEN LET y == CheckedYear(payload.selected_year) IN
         IF ~IsOk(y) THEN y
         ELSE LET ms == SelectedMonthDates(y.body, payload.selected_months)
              IN IF IsOk(ms) THEN Resolved(ms.body, <<>>) ELSE ms
    ELSE IF payload.selected_quarters # <<>>
    THEN LET y == CheckedYear(payload.selected_year) IN
         IF ~IsOk(y) THEN y
         ELSE LET qm == QuarterMap(y.body, payload.selected_quarters, <<>>)
              IN IF IsOk(qm) THEN Resolved(<<>>, qm.body) ELSE qm
    ELSE LET latest == get_latest_month(rows)
         IN IF IsOk(latest) THEN Resolved(<<latest.body>>, <<>>) ELSE latest

\* whether resolution runs the max-duration-month query
NeedsLatest(payload) ==
    /\ ~(payload.start_month # "" /\ payload.end_month # "")
    /\ payload.selected_months = <<>>
    /\ payload.selected_quarters = <<>>

\* periods: the quarter labels if selected_quarters is set, else the months
Periods(payload, res) ==
    IF payload.selected_quarters # <<>>
    THEN DictKeys(res.quarter_map)
    ELSE [i \in DOMAIN res.months |-> FormatYM(res.months[i])]

RECURSIVE Flatten(_)
Flatten(lists) == IF lists = <<>> THEN <<>> ELSE Head(lists) \o Flatten(Tail(lists))

DateList(payload, res) ==
    IF payload.selected_quarters # <<>>
    THEN Flatten(DictValues(res.quarter_map))
    ELSE res.months

NoData(period) == [message |-> "No data found for " \o period]

RECURSIVE InitResponse(_, _)
\* for period in periods: response[period] = {"message": ...}
InitResponse(periods, response) ==
    IF periods = <<>> THEN response
    ELSE InitResponse(Tail(periods), DictSet(response, Head(periods), NoData(Head(periods))))

(***************************************************************************)
(* The rollup (client_summary_service, lines 275-353)                      *)
(***************************************************************************)
ShiftTypeSet == {ShiftTypes[i] : i \in DOMAIN ShiftTypes}

NewMonthBlock ==
    [clients |-> <<>>,
     month_total |-> ("total_head_count" :> 0) @@ empty_shift_totals
                         @@ ("total_allowance" :> 0)]

NewClientBlock ==
    [k \in {"client_" \o t : t \in ShiftTypeSet} |-> 0]
        @@ [departments |-> <<>>, client_head_count |-> 0, client_total |-> 0]

NewDeptBlock ==
    [k \in {"dept_" \o t : t \in ShiftTypeSet} |-> 0]
        @@ [dept_total |-> 0, employees |-> <<>>, dept_head_count |-> 0]

NewEmployee(row) ==
    [emp_id |-> row.eid, emp_name |-> row.ename, account_manager |-> row.acc_mgr]
        @@ empty_shift_totals @@ [total |-> 0]

\* period_key: the first quarter whose month list holds the row's month, else
\* the row's month
PeriodKey(row, quarter_map) ==
    IF \E i \in DOMAIN quarter_map :
          \E j \in DOMAIN quarter_map[i].v : quarter_map[i].v[j] = row.dm
    THEN quarter_map[CHOOSE i \in DOMAIN quarter_map :
             /\ \E j \in DOMAIN quarter_map[i].v : quarter_map[i].v[j] = row.dm
             /\ \A h \in 1..(i - 1) :
                   \A j \in DOMAIN quarter_map[h].v : quarter_map[h].v[j] # row.dm].k
    ELSE FormatYM(row.dm)

\* float(days or 0) * float(amt or 0), amt NULL when no rate matched
RowTotal(row) == row.days * (IF row.amt = <<>> THEN 0 ELSE row.amt[1])

EmpIdx(employees, eid) ==
    CHOOSE i \in DOMAIN employees :
        /\ employees[i].emp_id = eid
        /\ \A h \in 1..(i - 1) : employees[h].emp_id # eid

\* lines 346-347: the employee's bucket and total
UpdateEmployee(employee, stype, total) ==
    [employee EXCEPT ![stype] = @ + total, !.total = @ + total]

\* lines 341-342 and 348-349: the department's employees, head-count, bucket
\* and total
\* UpdateDept that leaves the department's employee list as it was
MutUpdateDeptKeepsList(dept_block, employees, isNew, stype, total) ==
    [dept_block EXCEPT
        !.dept_head_count = @ + (IF isNew THEN 1 ELSE 0),
        !["dept_" \o stype] = @ + total,
        !.dept_total = @ + total]

UpdateDept(dept_block, employees, isNew, stype, total) ==
    [dept_block EXCEPT
        !.employees = employees,
        !.dept_head_count = @ + (IF isNew THEN 1 ELSE 0),
        !["dept_" \o stype] = @ + total,
        !.dept_total = @ + total]

\* UpdateClient with the bucket update of line 350 left out
MutUpdateClient(client_block, dept_name, dept_block, isNew, stype, total) ==
    [client_block EXCEPT
        !.departments = DictSet(@, dept_name, dept_block),
        !.client_head_count = @ + (IF isNew THEN 1 ELSE 0),
        !.client_total = @ + total]

\* lines 343 and 350-351: the client's departments, head-count, bucket and total
UpdateClient(client_block, dept_name, dept_block, isNew, stype, total) ==
    [client_block EXCEPT
        !.departments = DictSet(@, dept_name, dept_block),
        !.client_head_count = @ + (IF isNew THEN 1 ELSE 0),
        !["client_" \o stype] = @ + total,
        !.client_total = @ + total]

\* lines 344 and 352-353: the period's clients and month_total
UpdateMonth(month_block, client_name, client_block, isNew, stype, total) ==
    [month_block EXCEPT
        !.clients = DictSet(@, client_name, client_block),
        !.month_total = [@ EXCEPT
            !.total_head_count = @ + (IF isNew THEN 1 ELSE 0),
            ![stype] = @ + total,
            !.total_allowance = @ + total]]

\* one iteration of the loop over rows; response[period_key] exists
FoldRow(response, row, quarter_map, names) ==
    LET period_key == PeriodKey(row, quarter_map)
        old == DictGet(response, period_key)
        month_block == IF "message" \in DOMAIN old THEN NewMonthBlock ELSE old
        client_safe == Strip(row.client)
        dept_safe == Strip(row.dept)
        client_name == DictGetOr(names.client_name_map, Lower(client_safe),
                           IF client_safe = "" THEN "UNKNOWN" ELSE client_safe)
        dept_name == DictGetOr(names.dept_name_map,
                         <<Lower(client_safe), Lower(dept_safe)>>,
                         IF dept_safe = "" THEN "UNKNOWN" ELSE dept_safe)
        total == RowTotal(row)
        client_block == DictGetOr(month_block.clients, client_name, NewClientBlock)
        dept_block == DictGetOr(client_block.departments, dept_name, NewDeptBlock)
        isNew == ~\E i \in DOMAIN dept_block.employees :
                     dept_block.employees[i].emp_id = row.eid
        employees0 == IF isNew THEN Append(dept_block.employees, NewEmployee(row))
                      ELSE dept_block.employees
        idx == EmpIdx(employees0, row.eid)
        employees1 == [employees0 EXCEPT
                          ![idx] = UpdateEmployee(@, row.stype, total)]
        dept1 == UpdateDept(dept_block, employees1, isNew, row.stype, total)
        client1 == UpdateClient(client_block, dept_name, dept1, isNew, row.stype, total)
        month1 == UpdateMonth(month_block, client_name, client1, isNew, row.stype, total)
    IN DictSet(response, period_key, month1)

RECURSIVE FoldRows(_, _, _, _)
\* the loop over rows: response[period_key] of a period that was not requested
\* and employee[stype] of an unknown shift type raise KeyError
FoldRows(response, rows, quarter_map, names) ==
    IF rows = <<>> THEN Ok(response)
    ELSE IF ~DictHas(response, PeriodKey(Head(rows), quarter_map))
    THEN Err(500, "KeyError: period")
    ELSE IF Head(rows).stype \notin ShiftTypeSet
    THEN Err(500, "KeyError: shift type")
    ELSE FoldRows(FoldRow(response, Head(rows), quarter_map, names),
                  Tail(rows), quarter_map, names)

\* lines 208-353: the response of the resolved periods `res`, or the error
\* their resolution raised
BuildResolved(payload, rows, names, res) ==
    IF ~IsOk(res) THEN res
    ELSE FoldRows(InitResponse(Periods(payload, res.body), <<>>),
                  QueryAll(rows, payload, names, DateList(payload, res.body)),
                  res.body.quarter_map, names)

\* lines 176-353 of client_summary_service: the response built from the store
\* (`latestRows` as the max-duration-month query sees it, `rows` as the fact
\* query sees it), or the error raised
BuildSummary(payload, latestRows, rows) ==
    IF ~IsOk(normalize_clients(payload.clients)) THEN normalize_clients(payload.clients)
    ELSE BuildResolved(payload, rows, normalize_clients(payload.clients).body,
                       ResolvePeriods(payload, latestRows))

(***************************************************************************)
(* The latest-month cache (diskcache.Cache("./diskcache/latest_month"),    *)
(* one directory shared by both services).  cache[key] is <<>> or          *)
(* <<[value, expire_time]>>.                                               *)
(***************************************************************************)
LATEST_MONTH_KEY == "client_summary:latest_month"

EXCEL_KEY == LATEST_MONTH_KEY \o ":excel"

\* a time to live of twelve hours
MutCacheTtl == 12 * 60 * 60

CACHE_TTL == 24 * 60 * 60

CacheKeys == {LATEST_MONTH_KEY, EXCEL_KEY}

\* cache.get(key): the value of an entry whose expire_time is later than now,
\* as <<value>>, else <<>> (None)
CacheGet(c, key, t) ==
    IF c[key] # <<>> /\ c[key][1].expire_time > t
    THEN <<c[key][1].value>>
    ELSE <<>>

\* cache.set(key, value, expire=expire)
CacheSet(c, key, value, expire, t) ==
    [c EXCEPT ![key] = <<[value |-> value, expire_time |-> t + expire]>>]

(***************************************************************************)
(* client_summary_service.  `up` is whether the data store answers: a      *)
(* query against an unreachable store raises.  The outcome is the result,  *)
(* the cache afterwards, whether the cached entry answered the request,    *)
(* and the number of data-store queries issued.                            *)
(***************************************************************************)
Unavailable == Err(500, "data store unavailable")

Outcome(result, c, hit, queries) ==
    [result |-> result, cache |-> c, hit |-> hit, queries |-> queries]

\* lines 176-353 with an unreachable store: the errors raised before the
\* first query, else the failure of that query
BuildOrFail(payload, latestRows, rows, up) ==
    IF up THEN BuildSummary(payload, latestRows, rows)
    ELSE LET names == normalize_clients(payload.clients) IN
         IF ~IsOk(names) THEN names
         ELSE IF NeedsLatest(payload) THEN Unavailable
         ELSE LET res == ResolvePeriods(payload, latestRows) IN
              IF ~IsOk(res) THEN res ELSE Unavailable

\* the queries issued by lines 176-353 that ended in `result`
QueriesIssued(payload, result, up) ==
    IF ~IsOk(normalize_clients(payload.clients)) THEN 0
    ELSE IF NeedsLatest(payload)
    THEN (IF ~up \/ result.status = 404 THEN 1 ELSE 2)
    ELSE IF ~IsOk(ResolvePeriods(payload, <<>>)) THEN 0
    ELSE 1

\* the entry holding the response as it stood before the rows were folded in
MutSummaryEntryBeforeFold(latestRows, response) ==
    [_cached_month |-> FormatYM(MaxMonth(latestRows)),
     data |-> InitResponse(DictKeys(response), <<>>)]

\* the cache entry written at lines 355-360
SummaryEntry(latestRows, response) ==
    [_cached_month |-> FormatYM(MaxMonth(latestRows)), data |-> response]

\* lines 355-362, reached or not by the build that ended in `r`: the entry is
\* written after a build that raised nothing, for the default shape
SummaryMiss(payload, c, rows, t, up, r) ==
    Outcome(r,
            IF IsOk(r) /\ is_default_latest_month_request(payload)
            THEN CacheSet(c, LATEST_MONTH_KEY, SummaryEntry(rows, r.body), CACHE_TTL, t)
            ELSE c,
            FALSE, QueriesIssued(payload, r, up))

client_summary_service(payload, c, rows, t, up) ==
    LET cached == CacheGet(c, LATEST_MONTH_KEY, t) IN
    IF is_default_latest_month_request(payload) /\ cached # <<>>
    THEN Outcome(Ok(cached[1].data), c, TRUE, 0)
    ELSE SummaryMiss(payload, c, rows, t, up, BuildOrFail(payload, rows, rows, up))

(***************************************************************************)
(* client_summary_download_service                                         *)
(***************************************************************************)
EXPORT_DIR == "exports"

DEFAULT_EXPORT_FILE == "client_summary_latest.xlsx"

\* the characters of the model's strings in code-point order
CharOrder ==
    <<" ", "&", "'", "(", ")", ",", "-", ".">> \o Digits \o <<":">> \o UpperChars
      \o <<"_">> \o LowerChars

CharRank(c) == CHOOSE i \in DOMAIN CharOrder : CharOrder[i] = c

RECURSIVE StrLT(_, _)
\* a < b on Python strings
StrLT(a, b) ==
    IF Len(b) = 0 THEN FALSE
    ELSE IF Len(a) = 0 THEN TRUE
    ELSE IF SubSeq(a, 1, 1) = SubSeq(b, 1, 1)
    THEN StrLT(SubSeq(a, 2, Len(a)), SubSeq(b, 2, Len(b)))
    ELSE CharRank(SubSeq(a, 1, 1)) < CharRank(SubSeq(b, 1, 1))

RECURSIVE InsertKey(_, _)
InsertKey(x, sorted) ==
    IF sorted = <<>> THEN <<x>>
    ELSE IF StrLT(x, Head(sorted)) THEN <<x>> \o sorted
    ELSE <<Head(sorted)>> \o InsertKey(x, Tail(sorted))

RECURSIVE SortedKeys(_)
\* sorted(summary_data): the keys in ascending string order
SortedKeys(keys) ==
    IF keys = <<>> THEN <<>>
    ELSE InsertKey(keys[Len(keys)], SortedKeys(SubSeq(keys, 1, Len(keys) - 1)))

Pad3(n) ==
    IF n < 10 THEN "00" \o ToString(n)
    ELSE IF n < 100 THEN "0" \o ToString(n)
    ELSE ToString(n)

RECURSIVE Grouped(_)
\* f"{value:,}" of a non-negative integer
Grouped(n) ==
    IF n < 1000 THEN ToString(n)
    ELSE Grouped(n \div 1000) \o "," \o Pad3(n % 1000)

\* f"Rs{value:,.0f}" with the rupee sign written Rs
_format_currency(value) == "Rs" \o Grouped(value)

ExportRow(period, client, partner, emp_id, dept_name, head_count, a, b, c, prime, total) ==
    [Period |-> period, Client |-> client, Department |-> dept_name]
      @@ ("Client Partner" :> partner) @@ ("Employee ID" :> emp_id)
      @@ ("Head Count" :> head_count)
      @@ ("Shift A" :> _format_currency(a)) @@ ("Shift B" :> _format_currency(b))
      @@ ("Shift C" :> _format_currency(c))
      @@ ("Shift PRIME" :> _format_currency(prime))
      @@ ("Total Allowance" :> _format_currency(total))

\* _append_department_row
DepartmentRow(period, client, partner, dept_name, dept_block) ==
    ExportRow(period, client, partner, "", dept_name, dept_block.dept_head_count,
              dept_block.dept_A, dept_block.dept_B, dept_block.dept_C,
              dept_block.dept_PRIME, dept_block.dept_total)

\* _append_employee_row: the summary's employees carry every key
EmployeeRow(period, client, dept_name, emp) ==
    ExportRow(period, client, emp.account_manager, emp.emp_id, dept_name, 1,
              emp.A, emp.B, emp.C, emp.PRIME, emp.total)

\* manager_filter and manager_filter != value: a list filter never equals a
\* manager's name
ManagerMismatch(manager_filter, value) ==
    /\ ManagerTruthy(manager_filter)
    /\ ~(manager_filter.tag = "str" /\ manager_filter.s = value)

\* lines 153-186 for one department
DeptRows(period, client, dept_name, dept_block, payload) ==
    IF dept_block.employees = <<>>
    THEN IF ManagerMismatch(payload.account_manager, "") THEN <<>>
         ELSE <<DepartmentRow(period, client, "", dept_name, dept_block)>>
    ELSE LET kept == SelectSeq(dept_block.employees, LAMBDA emp :
                         /\ ~(payload.emp_id # "" /\ payload.emp_id # emp.emp_id)
                         /\ ~ManagerMismatch(payload.account_manager, emp.account_manager))
         IN [i \in DOMAIN kept |-> EmployeeRow(period, client, dept_name, kept[i])]

RECURSIVE ClientRows(_, _, _, _)
ClientRows(period, client, departments, payload) ==
    IF departments = <<>> THEN <<>>
    ELSE DeptRows(period, client, Head(departments).k, Head(departments).v, payload)
           \o ClientRows(period, client, Tail(departments), payload)

RECURSIVE PeriodRows(_, _, _)
PeriodRows(period, clients, payload) ==
    IF clients = <<>> THEN <<>>
    ELSE ClientRows(period, Head(clients).k, Head(clients).v.departments, payload)
           \o PeriodRows(period, Tail(clients), payload)

RECURSIVE SummaryRows(_, _, _)
\* lines 143-186: the periods in sorted order; a period without clients is
\* skipped
SummaryRows(period_keys, summary_data, payload) ==
    IF period_keys = <<>> THEN <<>>
    ELSE LET period_data == DictGet(summary_data, Head(period_keys))
         IN (IF "clients" \in DOMAIN period_data /\ period_data.clients # <<>>
             THEN PeriodRows(Head(period_keys), period_data.clients, payload)
             ELSE <<>>)
            \o SummaryRows(Tail(period_keys), summary_data, payload)

\* pd.to_datetime(df["Period"], format="%Y-%m") parses every Period
PeriodsParse(rows) == \A i \in DOMAIN rows : ValidYYYYMM(rows[i].Period)

RowLT(x, y) ==
    LET px == parse_yyyy_mm(x.Period).body
        py == parse_yyyy_mm(y.Period).body
    IN IF px # py THEN DateLE(px, py)   \* px # py: strictly earlier
       ELSE IF x.Client # y.Client THEN StrLT(x.Client, y.Client)
       ELSE IF x.Department # y.Department THEN StrLT(x.Department, y.Department)
       ELSE StrLT(x["Employee ID"], y["Employee ID"])

RECURSIVE InsertRow(_, _)
InsertRow(x, sorted) ==
    IF sorted = <<>> THEN <<x>>
    ELSE IF RowLT(x, Head(sorted)) THEN <<x>> \o sorted
    ELSE <<Head(sorted)>> \o InsertRow(x, Tail(sorted))

RECURSIVE SortRows(_)
\* df.sort_values(by=["Period", "Client", "Department", "Employee ID"])
SortRows(rows) ==
    IF rows = <<>> THEN <<>>
    ELSE InsertRow(rows[Len(rows)], SortRows(SubSeq(rows, 1, Len(rows) - 1)))

\* lines 191-196: Period parsed, rows sorted, Period formatted back
SortedFrame(rows) ==
    LET sorted == SortRows(rows)
    IN [i \in DOMAIN sorted |->
           [sorted[i] EXCEPT !.Period = FormatYM(parse_yyyy_mm(@).body)]]

\* datetime.now().strftime("%Y%m%d_%H%M%S") of the model's clock: a stamp
\* per second
Timestamp(t) == "20240701_" \o ToString(t)

\* the path _write_excel writes to
ExportPath(payload, t) ==
    IF is_default_latest_month_request(payload)
    THEN EXPORT_DIR \o "/" \o DEFAULT_EXPORT_FILE
    ELSE EXPORT_DIR \o "/client_summary_" \o Timestamp(t) \o ".xlsx"

RECURSIVE PutFile(_, _)
\* the directory fs, its entries in the order of their paths, once the path
\* e.k names the file e.  A file is the rows `v` of the sheet written to it
\* last and its length `size`, counted in rows: it is a readable sheet when
\* size = Len(v), and a sheet followed by what an earlier, longer content
\* left behind when size > Len(v).
PutFile(fs, e) ==
    IF fs = <<>> THEN <<e>>
    ELSE IF Head(fs).k = e.k THEN <<e>> \o Tail(fs)
    ELSE IF StrLT(e.k, Head(fs).k) THEN <<e>> \o fs
    ELSE <<Head(fs)>> \o PutFile(Tail(fs), e)

\* the file at file_path
FileAt(fs, file_path) == fs[CHOOSE i \in DOMAIN fs : fs[i].k = file_path]

\* the directory once file_path has been opened for writing, written with
\* the sheet of `rows` and closed, with nothing else in between
WriteFile(fs, file_path, rows) ==
    PutFile(fs, [k |-> file_path, v |-> rows, size |-> Len(rows)])

\* _write_excel: files maps a path to the rows of its sheet
_write_excel(fs, df, payload, t) == WriteFile(fs, ExportPath(payload, t), df)

ExportOutcome(result, c, fs, hit, queries) ==
    [result |-> result, cache |-> c, files |-> fs, hit |-> hit, queries |-> queries]

\* lines 138-196: the sorted frame of a summary the export received, or the
\* error raised
ExportFrame(summary_data, payload) ==
    IF summary_data = <<>> THEN Err(404, "No data available")
    ELSE LET sheet == SummaryRows(SortedKeys(DictKeys(summary_data)),
                                  summary_data, payload)
         IN IF sheet = <<>> THEN Err(404, "No data available for export")
            ELSE IF ~PeriodsParse(sheet)
            THEN Err(500, "ValueError: time data does not match format")
            ELSE Ok(SortedFrame(sheet))

\* the cache entry written at lines 200-208
ExportEntry(df, file_path) ==
    [_cached_month |-> df[1].Period, file_path |-> file_path]

\* lines 198-210: the frame is written and, for the default shape, the entry
\* stored; `frame` is the frame or the error raised before
ExportWritten(payload, fs, t, sum, frame) ==
    IF ~IsOk(frame)
    THEN ExportOutcome(frame, sum.cache, fs, sum.hit, sum.queries)
    ELSE ExportOutcome(Ok(ExportPath(payload, t)),
             IF is_default_latest_month_request(payload)
             THEN CacheSet(sum.cache, EXCEL_KEY,
                           ExportEntry(frame.body, ExportPath(payload, t)), CACHE_TTL, t)
             ELSE sum.cache,
             _write_excel(fs, frame.body, payload, t), sum.hit, sum.queries)

\* lines 138-210, `sum` being the outcome of the call of line 137
ExportAfterSummary(payload, fs, t, sum) ==
    IF ~IsOk(sum.result)
    THEN ExportOutcome(sum.result, sum.cache, fs, sum.hit, sum.queries)
    ELSE ExportWritten(payload, fs, t, sum, ExportFrame(sum.result.body, payload))

\* lines 134-210, after the export entry missed
ExportBuild(payload, c, fs, rows, t, up) ==
    ExportAfterSummary(payload, fs, t, client_summary_service(payload, c, rows, t, up))

client_summary_download_service(payload, c, fs, rows, t, up) ==
    LET cached == CacheGet(c, EXCEL_KEY, t) IN
    IF /\ is_default_latest_month_request(payload)
       /\ cached # <<>>
       /\ DictHas(fs, cached[1].file_path)
    THEN ExportOutcome(Ok(cached[1].file_path), c, fs, TRUE, 0)
    ELSE ExportBuild(payload, c, fs, rows, t, up)

(***************************************************************************)
(* The paginated search (services/search_service.py).  The functions that  *)
(* share a name with one of client_summary_service.py carry the prefix     *)
(* search_.                                                                *)
(***************************************************************************)
\* validate_year: year.isdigit() of a JSON number raises AttributeError
search_validate_year(year) ==
    IF year.tag = "int"
    THEN Err(500, "AttributeError: 'int' object has no attribute 'isdigit'")
    ELSE IF ~IsDigits(year.s) \/ Len(year.s) # 4
    THEN Err(400, "selected_year must be a 4-digit year (YYYY)")
    ELSE IF ParseNat(year.s) > Today.year THEN Err(400, "Future year cannot be selected")
    ELSE Ok(ParseNat(year.s))

validate_month(month) ==
    IF ~IsDigits(month) \/ ParseNat(month) \notin 1..12
    THEN Err(400, "selected_months must be between 01 and 12")
    ELSE Ok(ParseNat(month))

validate_quarters(quarters) ==
    IF \A i \in DOMAIN quarters : Upper(quarters[i]) \in {"Q1", "Q2", "Q3", "Q4"}
    THEN Ok(quarters)
    ELSE Err(400, "selected_quarters must be one of Q1, Q2, Q3, Q4")

get_quarter_months(q) ==
    CASE q = "Q1" -> {1, 2, 3}
      [] q = "Q2" -> {4, 5, 6}
      [] q = "Q3" -> {7, 8, 9}
      [] q = "Q4" -> {10, 11, 12}

\* year < today.year or (year == today.year and m <= today.month)
Started(year, m) == year < Today.year \/ (year = Today.year /\ m <= Today.month)

RECURSIVE MonthsAllowed(_, _, _)
\* lines 186-193
MonthsAllowed(year, tokens, acc) ==
    IF tokens = <<>> THEN Ok(acc)
    ELSE IF ~IsOk(validate_month(Head(tokens))) THEN validate_month(Head(tokens))
    ELSE IF year = Today.year /\ validate_month(Head(tokens)).body > Today.month
    THEN Err(400, "Future month " \o Pad2(validate_month(Head(tokens)).body)
                  \o " is not allowed")
    ELSE MonthsAllowed(year, Tail(tokens), acc \cup {validate_month(Head(tokens)).body})

RECURSIVE QuartersAllowed(_, _, _)
\* lines 196-207
QuartersAllowed(year, quarters, acc) ==
    IF quarters = <<>> THEN Ok(acc)
    ELSE IF \A m \in get_quarter_months(Upper(Head(quarters))) : ~Started(year, m)
    THEN Err(400, Upper(Head(quarters)) \o " has not started yet and cannot be selected")
    ELSE QuartersAllowed(year, Tail(quarters),
             acc \cup {m \in get_quarter_months(Upper(Head(quarters))) : Started(year, m)})

Allowed(year, months) == Ok([year |-> year, allowed |-> months])

AllowedOf(year, qs) == IF IsOk(qs) THEN Allowed(<<year>>, qs.body) ELSE qs

\* lines 186-207, `year` validated
AllowedIn(payload, year, ms) ==
    IF ~IsOk(ms) THEN ms
    ELSE IF payload.selected_quarters = <<>> THEN Allowed(<<year>>, ms.body)
    ELSE IF ~IsOk(validate_quarters(payload.selected_quarters))
    THEN validate_quarters(payload.selected_quarters)
    ELSE AllowedOf(year, QuartersAllowed(year, payload.selected_quarters, ms.body))

\* lines 181-207: the year (<<>> for None) and allowed_months
AllowedMonths(payload) ==
    IF ~YearTruthy(payload.selected_year) THEN Allowed(<<>>, {})
    ELSE IF ~IsOk(search_validate_year(payload.selected_year))
    THEN search_validate_year(payload.selected_year)
    ELSE AllowedIn(payload, search_validate_year(payload.selected_year).body,
                   MonthsAllowed(search_validate_year(payload.selected_year).body,
                                 payload.selected_months, {}))

\* today's month moved back by i months (i in 0..11)
MonthBack(i) ==
    IF Today.month - i <= 0 THEN Date(Today.year - 1, Today.month - i + 12)
    ELSE Date(Today.year, Today.month - i)

HasMonth(rows, d) == \E j \in DOMAIN rows : rows[j].duration_month = d

\* get_default_start_month: the most recent of the last 12 months with a row
get_default_start_month(rows) ==
    IF \E i \in 0..11 : HasMonth(rows, MonthBack(i))
    THEN Ok(FormatYM(MonthBack(CHOOSE i \in 0..11 :
                /\ HasMonth(rows, MonthBack(i))
                /\ \A k \in 0..(i - 1) : ~HasMonth(rows, MonthBack(k)))))
    ELSE Err(404, "No data found in the last 12 months")

SetMin(S) == CHOOSE x \in S : \A y \in S : x <= y
SetMax(S) == CHOOSE x \in S : \A y \in S : y <= x

\* lines 208-210: f"{year}-{min(allowed_months):02d}"
RangeOf(payload, al) ==
    IF al.allowed # {}
    THEN [start |-> ToString(al.year[1]) \o "-" \o Pad2(SetMin(al.allowed)),
          end |-> ToString(al.year[1]) \o "-" \o Pad2(SetMax(al.allowed))]
    ELSE [start |-> payload.start_month, end |-> payload.end_month]

\* lines 212-215; `latest` is the result of get_default_start_month
RangeOrLatest(range, latest) ==
    IF range.start # "" /\ range.end # "" THEN Ok(range)
    ELSE IF ~IsOk(latest) THEN latest
    ELSE Ok([start |-> IF range.start = "" THEN latest.body ELSE range.start,
             end |-> IF range.end = "" THEN latest.body ELSE range.end])

\* re.fullmatch(r"\d{4}-\d{2}", s)
MatchesYYYYMM(s) ==
    /\ Len(s) = 7
    /\ IsDigits(SubSeq(s, 1, 4))
    /\ SubSeq(s, 5, 5) = "-"
    /\ IsDigits(SubSeq(s, 6, 7))

\* lines 217-225: start_dt and end_dt
CheckedRange(range) ==
    IF ~MatchesYYYYMM(range.start) THEN Err(400, "start_month must be in YYYY-MM format")
    ELSE IF ~MatchesYYYYMM(range.end) THEN Err(400, "end_month must be in YYYY-MM format")
    ELSE IF ~ValidYYYYMM(range.start) \/ ~ValidYYYYMM(range.end)
    THEN Err(500, "ValueError: time data does not match format '%Y-%m'")
    ELSE IF ~DateLE(parse_yyyy_mm(range.end).body, Today)
    THEN Err(400, "Future months are not allowed in date range")
    ELSE Ok([start_dt |-> parse_yyyy_mm(range.start).body,
             end_dt |-> parse_yyyy_mm(range.end).body])

\* the members of the Company enum (utils/client_enums.py), in order
Company ==
    << [name |-> "ALASKA_COMMUNICATIONS", value |-> "Alaska Communications Systems Holdings Inc"],
       [name |-> "YMCA", value |-> "National Council of Young Men's Christian Association of the USA of America"],
       [name |-> "MOURITECH_LLC", value |-> "MOURI Tech LLC"],
       [name |-> "ILC_DOVER", value |-> "ILC Dover"],
       [name |-> "LAZARD", value |-> "Lazard Freres & Co LLC"],
       [name |-> "MOURITECH", value |-> "MOURI Tech Limited"],
       [name |-> "CHEP", value |-> "CHEP USA Inc"],
       [name |-> "HUDSON", value |-> "Hudson Advisors L.P"],
       [name |-> "NAT_GRID", value |-> "National Grid USA Service Company Inc"],
       [name |-> "LEASELOCK", value |-> "LeaseLock Inc"],
       [name |-> "DZS", value |-> "DZS Inc"],
       [name |-> "SOUL_CYCLE", value |-> "SoulCycle Inc"],
       [name |-> "VERTISYSTEMS", value |-> "Vertisystem Inc"],
       [name |-> "CLAIR_SOURCE", value |-> "Clair Source Group"],
       [name |-> "ATD", value |-> "American Tire Distributors Inc"],
       [name |-> "SVI", value |-> "Storage Vault Canada Inc"],
       [name |-> "TRINET", value |-> "TriNet USA Inc"],
       [name |-> "HFT", value |-> "Harbor Freight Tools USA Inc"],
       [name |-> "ICON", value |-> "Citizens Icon Holdings LLC"],
       [name |-> "VERTEXONE", value |-> "VERTEXONE SOFTWARE LLC"],
       [name |-> "EBOS", value |-> "Symbion Pty Ltd (EBOS)"],
       [name |-> "HARRIS_FARM", value |-> "Harris Farm Markets Pty Ltd"],
       [name |-> "GLOBUS", value |-> "Globus Medical Inc"],
       [name |-> "DELOITTE", value |-> "Deloitte Consulting India Private Limited"],
       [name |-> "FREEMAN", value |-> "Freeman Corporation"],
       [name |-> "SWIFT", value |-> "Swift Beef Company"],
       [name |-> "GCG", value |-> "Goddard Catering Group"],
       [name |-> "SEPHORA", value |-> "Sephora"],
       [name |-> "DEVFI", value |-> "Devfi Inc"],
       [name |-> "LACTALIS", value |-> "LACTALIS AUSTRALIA PTY LTD"],
       [name |-> "ENERSYS", value |-> "EnerSys Delaware Inc"],
       [name |-> "LENOVO", value |-> "Lenovo PC HK LTD"],
       [name |-> "HUMMING_BIRD", value |-> "Humming Bird Education Limited"],
       [name |-> "NWN", value |-> "NWN Corporation"],
       [name |-> "RITCHIE", value |-> "Ritchie Bros. Auctioneers Inc"],
       [name |-> "INGERSOLL_RAND", value |-> "Ingersoll Rand"],
       [name |-> "BINGO", value |-> "Bingo Industries"],
       [name |-> "ESTABLISHMENT_LABS", value |-> "Establishment Labs SA"],
       [name |-> "ONESTREAM", value |-> "OneStream Software LLC"],
       [name |-> "EQUINOX", value |-> "Equinox Holdings Inc"],
       [name |-> "STRADA", value |-> "Strada U.S. Payroll LLC"],
       [name |-> "SIPEF", value |-> "SIPEF Singapore Pte Ltd"],
       [name |-> "SUNTEX", value |-> "Suntex Marinas LLC"],
       [name |-> "SAMSARA", value |-> "Samsara Inc"],
       [name |-> "SIGNIA", value |-> "Signia Aerospace"],
       [name |-> "ATNI", value |-> "ATN International Services LLC"],
       [name |-> "ANICA", value |-> "Anica Inc"],
       [name |-> "ELF", value |-> "ELF Cosmetics Inc"],
       [name |-> "TOYOTA", value |-> "Toyota Canada Inc"],
       [name |-> "REGAL", value |-> "Regal Rexnord Corporation"],
       [name |-> "UWF", value |-> "University of Wisconsin Foundation"],
       [name |-> "DELEK", value |-> "Delek US Holdings Inc"] >>

normalize_company_name(client) ==
    IF \E i \in DOMAIN Company : Company[i].name = Upper(client)
    THEN Company[CHOOSE i \in DOMAIN Company : Company[i].name = Upper(client)].value
    ELSE client

\* apply_client_department_filters, on one row
ClientDepartmentFilter(a, client, department) ==
    /\ (client # "" /\ Upper(Strip(client)) # "ALL") =>
           Contains(Upper(a.client), Upper(Strip(normalize_company_name(client))))
    /\ department # "" => Contains(Upper(a.department), Upper(Strip(department)))

\* lines 239-248
SearchDateFilter(a, al, dts) ==
    IF al.allowed # {}
    THEN a.duration_month.year = al.year[1] /\ a.duration_month.month \in al.allowed
    ELSE DateLE(dts.start_dt, a.duration_month) /\ DateLE(a.duration_month, dts.end_dt)

\* lines 250-255
SearchFilter(a, payload) ==
    /\ payload.emp_id # "" => Contains(Upper(a.emp_id), Upper(payload.emp_id))
    /\ payload.account_manager.tag = "str" /\ payload.account_manager.s # "" =>
           Contains(Upper(a.account_manager), Upper(payload.account_manager.s))
    /\ ClientDepartmentFilter(a, payload.client, payload.department)

RECURSIVE InsertByMonth(_, _)
InsertByMonth(x, sorted) ==
    IF sorted = <<>> THEN <<x>>
    ELSE IF DateLE(x.duration_month, Head(sorted).duration_month)
    THEN <<x>> \o sorted
    ELSE <<Head(sorted)>> \o InsertByMonth(x, Tail(sorted))

RECURSIVE OrderByMonth(_)
\* lines 257-260: ascending by year and month; rows of one month stay in
\* the order of the store
OrderByMonth(rows) ==
    IF rows = <<>> THEN <<>>
    ELSE InsertByMonth(Head(rows), OrderByMonth(Tail(rows)))

\* lines 227-262: all_rows
SearchRows(payload, al, dts, rows) ==
    OrderByMonth(SelectSeq(rows,
        LAMBDA a : SearchDateFilter(a, al, dts) /\ SearchFilter(a, payload)))

\* line 278-283: labels
Labels ==
    << [k |-> "A", v |-> "A(9PM to 6AM)"],
       [k |-> "B", v |-> "B(4PM to 1AM)"],
       [k |-> "C", v |-> "C(6AM to 3PM)"],
       [k |-> "PRIME", v |-> "PRIME(12AM to 9AM)"] >>

\* labels.get(m.shift_type.upper(), m.shift_type)
Label(shift_type) == DictGetOr(Labels, Upper(shift_type), shift_type)

RECURSIVE RatesFrom(_, _)
\* line 285: {r.shift_type.upper(): float(r.amount or 0) for r in rows}: one
\* rate per shift type, the last row of a type replacing the earlier ones
RatesFrom(table, acc) ==
    IF table = <<>> THEN acc
    ELSE RatesFrom(Tail(table), DictSet(acc, Upper(Head(table).shift_type),
                                        Head(table).amount))

\* days * rates.get(m.shift_type.upper(), 0)
SearchAmount(m, rates) == m.days * DictGetOr(rates, Upper(m.shift_type), 0)

RECURSIVE AddMappings(_, _, _)
\* aggregate_shift_details, the mappings of one row; overall[label] of a
\* label that is not one of the four raises KeyError
AddMappings(acc, maps, rates) ==
    IF maps = <<>> \/ ~IsOk(acc) THEN acc
    ELSE IF Head(maps).days <= 0 THEN AddMappings(acc, Tail(maps), rates)
    ELSE IF ~DictHas(acc.body.overall, Label(Head(maps).shift_type))
    THEN Err(500, "KeyError: shift type")
    ELSE AddMappings(
             Ok([overall |-> DictSet(acc.body.overall, Label(Head(maps).shift_type),
                                     DictGet(acc.body.overall, Label(Head(maps).shift_type))
                                         + SearchAmount(Head(maps), rates)),
                 total |-> acc.body.total + SearchAmount(Head(maps), rates)]),
             Tail(maps), rates)

RECURSIVE aggregate_shift_details(_, _, _)
aggregate_shift_details(rows, rates, acc) ==
    IF rows = <<>> THEN acc
    ELSE aggregate_shift_details(Tail(rows), rates, AddMappings(acc, Head(rows).maps, rates))

NoTotals == Ok([overall |-> [i \in DOMAIN Labels |-> [k |-> Labels[i].v, v |-> 0]], total |-> 0])

RECURSIVE EmployeeShifts(_, _, _)
\* prepare_employee_data, the mappings of one row: emp_shift and total
EmployeeShifts(acc, maps, rates) ==
    IF maps = <<>> THEN acc
    ELSE IF Head(maps).days <= 0 THEN EmployeeShifts(acc, Tail(maps), rates)
    ELSE EmployeeShifts(
             [shift_details |-> DictSet(acc.shift_details, Label(Head(maps).shift_type),
                                    DictGetOr(acc.shift_details,
                                              Label(Head(maps).shift_type), 0)
                                        + Head(maps).days),
              total_allowance |-> acc.total_allowance + SearchAmount(Head(maps), rates)],
             Tail(maps), rates)

\* one record of data.employees (project and payroll_month, which the store
\* rows of the model do not carry, left out)
EmployeeRecord(a, shifts) ==
    [emp_id |-> a.emp_id, emp_name |-> a.emp_name, department |-> a.department,
     client |-> a.client, account_manager |-> a.account_manager,
     duration_month |-> FormatYM(a.duration_month),
     shift_details |-> shifts.shift_details, total_allowance |-> shifts.total_allowance]

prepare_employee_data(rows, rates) ==
    [i \in DOMAIN rows |->
        EmployeeRecord(rows[i],
            EmployeeShifts([shift_details |-> <<>>, total_allowance |-> 0],
                           rows[i].maps, rates))]

\* all_rows[start:limit]
MutPageEndsAtLimit(all_rows, start, limit) ==
    SubSeq(all_rows, start + 1, IF limit < Len(all_rows) THEN limit ELSE Len(all_rows))

\* all_rows[start:start + limit], for start >= 0 and limit >= 0
Page(all_rows, start, limit) ==
    SubSeq(all_rows, start + 1,
           IF start + limit < Len(all_rows) THEN start + limit ELSE Len(all_rows))

\* lines 292-298
SearchResponse(all_rows, totals, employees) ==
    IF ~IsOk(totals) THEN totals
    ELSE Ok([total_records |-> Len(all_rows),
             shift_details |->
                 SelectSeq(totals.body.overall, LAMBDA e : e.v > 0)
                 \o << [k |-> "headcount",
                        v |-> Cardinality({all_rows[i].emp_id : i \in DOMAIN all_rows})],
                       [k |-> "total_allowance", v |-> totals.body.total] >>,
             data |-> [employees |-> employees]])

\* lines 264-298
SearchResult(payload, al, all_rows, rates) ==
    IF /\ payload.selected_quarters # <<>>
       /\ {FormatYM(all_rows[i].duration_month) : i \in DOMAIN all_rows}
              # {ToString(al.year[1]) \o "-" \o Pad2(m) : m \in al.allowed}
    THEN Err(404, "No data found for the selected quarter period")
    ELSE IF all_rows = <<>> THEN Err(404, "No data found for the selected period")
    ELSE SearchResponse(all_rows, aggregate_shift_details(all_rows, rates, NoTotals),
             prepare_employee_data(Page(all_rows, payload.start, payload.limit), rates))

\* lines 217-298, the range resolved
SearchRange(payload, al, dts, rows, rates) ==
    IF ~IsOk(dts) THEN dts
    ELSE IF payload.account_manager.tag = "list" /\ payload.account_manager.l # <<>>
    THEN Err(500, "AttributeError: 'list' object has no attribute 'upper'")
    ELSE SearchResult(payload, al, SearchRows(payload, al, dts.body, rows), rates)

\* lines 208-298, allowed_months computed
SearchAllowed(payload, al, range, rows, rates) ==
    IF ~IsOk(range) THEN range
    ELSE SearchRange(payload, al, CheckedRange(range.body), rows, rates)

\* export_filtered_excel on the store's ShiftAllowances rows (each with its
\* ShiftMapping rows) and ShiftsAmount rows
export_filtered_excel(payload, rows, table) ==
    IF ~IsOk(AllowedMonths(payload)) THEN AllowedMonths(payload)
    ELSE SearchAllowed(payload, AllowedMonths(payload).body,
             RangeOrLatest(RangeOf(payload, AllowedMonths(payload).body),
                           get_default_start_month(rows)),
             rows, RatesFrom(table, <<>>))

(***************************************************************************)
(* Bounds and inputs                                                       *)
(***************************************************************************)
MaxTicks == 4

MaxDbChanges == 1

\* an upload adds at most MaxRows rows
MaxRows == 2

\* requests in flight
NumReqs == 2

\* the clock advances in thirds of the cache's time to live
TickSeconds == CACHE_TTL \div 3

Window(l, h) == [lo |-> l, hi |-> h]

Windows == {Window(l, h) : l \in 0..Len(FactStream), h \in 0..Len(FactStream)}

\* the store contents a behaviour of the services starts from: a latest month
\* without shift mappings, and a latest month with data
InitWindows == {Window(0, 1), Window(0, 2)}

WithField(f, v) == [EmptyPayload EXCEPT ![f] = v]

DefaultPayloads ==
    { EmptyPayload,
      WithField("clients", ClientsStr("ALL")) }

FilterPayloads ==
    { WithField("emp_id", "e1"),
      WithField("emp_id", "E1"),
      WithField("account_manager", ManagerStr("dee")),
      WithField("clients", ClientsDict(<<[k |-> "ACME", v |-> <<"ops">>]>>)),
      WithField("clients", ClientsStr("Acme")),
      [EmptyPayload EXCEPT !.start_month = "2024-05", !.end_month = "2024-06"],
      [EmptyPayload EXCEPT !.start_month = "2024-06", !.end_month = "2024-05"],
      [EmptyPayload EXCEPT !.selected_year = YearInt(2024), !.selected_months = <<"06", "05">>],
      [EmptyPayload EXCEPT !.selected_year = YearInt(2025), !.selected_months = <<"01">>],
      [EmptyPayload EXCEPT !.selected_year = YearStr("2024"), !.selected_quarters = <<"Q2">>] }

Payloads == DefaultPayloads \cup FilterPayloads

\* the payloads of the requests that run against the cache
ServicePayloads ==
    DefaultPayloads \cup
    { WithField("emp_id", "E1"),
      [EmptyPayload EXCEPT !.start_month = "2024-06", !.end_month = "2024-05"] }

(***************************************************************************)
(* The state machine.  The routes are plain `def` handlers, which the      *)
(* framework runs on a pool of threads, and the services hold no lock: a   *)
(* request is a sequence of steps, one per access to the cache, the store  *)
(* or the export directory, and between two steps of a request the steps   *)
(* of the other requests, the clock, the uploads and the removal of files  *)
(* take place.  reqs holds the requests in flight and reqs[i].pc the next  *)
(* step of request i.  A request that leaves is recorded in `last`, with   *)
(* the state it arrived in, until the next step.                           *)
(***************************************************************************)
NoEntries == [k \in CacheKeys |-> <<>>]

Start(w) ==
    /\ db = w
    /\ now = 0
    /\ cache = NoEntries
    /\ files = <<>>
    /\ orphans = {}
    /\ asof = NoEntries
    /\ last = <<>>
    /\ reqs = <<>>
    /\ dbChanges = 0

Init == \E w \in InitWindows : Start(w)

Pre == [db |-> db, now |-> now, cache |-> cache, files |-> files, asof |-> asof]

\* where the data of a response or of an entry comes from: the store
\* contents the latest-month query and the fact query saw, and the time of
\* the fact query
Src(latest, rows, t) == [latest |-> latest, db |-> rows, read |-> t]

\* asof[key]: the source of the entry under key and the time of its write
AsOf(src, t) == [latest |-> src.latest, db |-> src.db, read |-> src.read, time |-> t]

SrcOf(entry) == Src(entry.latest, entry.db, entry.read)

\* `up` is whether the data store answers the queries of the request.
\* `alone` holds while no step other than the request's own has been taken
\* since it arrived, and `pre` is the state the request has run from so far:
\* the state it arrived in, as long as it runs alone.
NewRequest(op, payload, up) ==
    [op |-> op, payload |-> payload, up |-> up, pc |-> "arrived", pre |-> Pre,
     alone |-> TRUE, hit |-> FALSE, queries |-> 0, latest |-> <<>>, src |-> <<>>,
     body |-> <<>>, df |-> <<>>, path |-> "", fd |-> <<>>, length |-> 0,
     wrote |-> FALSE, result |-> <<>>]

\* the record of a request that has left: `result` is what its service
\* returned or raised and `sent` the response that went out
Completed(r, sent) ==
    [op |-> r.op, payload |-> r.payload, up |-> r.up, result |-> r.result[1],
     sent |-> sent, hit |-> r.hit, queries |-> r.queries, wrote |-> r.wrote,
     pre |-> r.pre, serial |-> r.alone]

\* the requests in flight after a step that is not theirs
Disturbed(rs) == [j \in DOMAIN rs |-> [rs[j] EXCEPT !.alone = FALSE, !.pre = <<>>]]

Without(rs, i) == SubSeq(rs, 1, i - 1) \o SubSeq(rs, i + 1, Len(rs))

\* request i has taken a step and is now r: it goes on, or it has left with
\* an error or with the summary, which is its response
Goes(i, r) ==
    IF r.pc = "done"
    THEN /\ reqs' = Disturbed(Without(reqs, i))
         /\ last' = <<Completed(r, r.result[1])>>
    ELSE /\ reqs' = [Disturbed(reqs) EXCEPT ![i] = r]
         /\ last' = <<>>

\* an exception leaves the service and the route
Raised(r, err) == [r EXCEPT !.pc = "done", !.result = <<err>>]

\* client_summary_service returns `result`: the response of a summary
\* request; in an export, lines 137-196 of the download service follow
SummaryReturns(r, result) ==
    IF ~IsOk(result) THEN Raised(r, result)
    ELSE IF r.op = "summary" THEN [r EXCEPT !.pc = "done", !.result = <<result>>]
    ELSE LET frame == ExportFrame(result.body, r.payload) IN
         IF ~IsOk(frame) THEN Raised(r, frame)
         ELSE [r EXCEPT !.pc = "file_open", !.df = frame.body]

\* summary service, lines 176-206, up to the first query: the client filter
\* and the period fields are checked; without period fields the latest-month
\* query comes first
BeforeQueries(r) ==
    LET names == normalize_clients(r.payload.clients) IN
    IF ~IsOk(names) THEN Raised(r, names)
    ELSE IF NeedsLatest(r.payload) THEN [r EXCEPT !.pc = "latest_query"]
    ELSE LET res == ResolvePeriods(r.payload, <<>>) IN
         IF ~IsOk(res) THEN Raised(r, res)
         ELSE [r EXCEPT !.pc = "rows_query"]

\* the first access of a request: only the default shape reads the cache
Entered(r) ==
    IF is_default_latest_month_request(r.payload)
    THEN [r EXCEPT !.pc = IF r.op = "export" THEN "export_read" ELSE "cache_read"]
    ELSE BeforeQueries(r)

\* a request arrives at POST /client-summary or POST /client-summary/download;
\* one that fails before its first access leaves at once
Arrive(op, payload, up) ==
    /\ Len(reqs) < NumReqs
    /\ \E r \in {Entered(NewRequest(op, payload, up))} :
          IF r.pc = "done"
          THEN /\ reqs' = reqs
               /\ last' = <<Completed(r, r.result[1])>>
          ELSE /\ reqs' = Append(reqs, r)
               /\ last' = <<>>
    /\ UNCHANGED <<db, now, cache, files, orphans, asof, dbChanges>>

\* download service, lines 129-130: cache.get of the export entry
ExportCacheGet(i) ==
    /\ reqs[i].pc = "export_read"
    /\ \E cached \in {CacheGet(cache, EXCEL_KEY, now)} :
          Goes(i, IF cached # <<>>
                  THEN [reqs[i] EXCEPT !.pc = "export_exists",
                                       !.path = cached[1].file_path,
                                       !.src = <<SrcOf(asof[EXCEL_KEY][1])>>]
                  ELSE [reqs[i] EXCEPT !.pc = "cache_read"])
    /\ UNCHANGED <<db, now, cache, files, orphans, asof, dbChanges>>

\* the export service without the os.path.exists test
MutExportTrustsEntry(i) ==
    /\ reqs[i].pc = "export_exists"
    /\ Goes(i, [reqs[i] EXCEPT !.pc = "file_stat", !.hit = TRUE,
                               !.result = <<Ok(reqs[i].path)>>])
    /\ UNCHANGED <<db, now, cache, files, orphans, asof, dbChanges>>

\* download service, lines 131-132: os.path.exists of the entry's file; the
\* service returns the path of a file that exists
ExportFileExists(i) ==
    /\ reqs[i].pc = "export_exists"
    /\ Goes(i, IF DictHas(files, reqs[i].path)
               THEN [reqs[i] EXCEPT !.pc = "file_stat", !.hit = TRUE,
                                    !.result = <<Ok(reqs[i].path)>>]
               ELSE [reqs[i] EXCEPT !.pc = "cache_read", !.path = "", !.src = <<>>])
    /\ UNCHANGED <<db, now, cache, files, orphans, asof, dbChanges>>

\* a summary service that has run its two queries when it reads the cache
MutSummaryQueriesFirst(i) ==
    /\ reqs[i].pc = "cache_read"
    /\ \E cached \in {CacheGet(cache, LATEST_MONTH_KEY, now)} :
          Goes(i, IF cached # <<>>
                  THEN SummaryReturns(
                           [reqs[i] EXCEPT !.hit = TRUE, !.queries = @ + 2,
                                           !.src = <<SrcOf(asof[LATEST_MONTH_KEY][1])>>],
                           Ok(cached[1].data))
                  ELSE BeforeQueries(reqs[i]))
    /\ UNCHANGED <<db, now, cache, files, orphans, asof, dbChanges>>

\* summary service, lines 171-174: cache.get of the summary entry
CacheRead(i) ==
    /\ reqs[i].pc = "cache_read"
    /\ \E cached \in {CacheGet(cache, LATEST_MONTH_KEY, now)} :
          Goes(i, IF cached # <<>>
                  THEN SummaryReturns(
                           [reqs[i] EXCEPT !.hit = TRUE,
                                           !.src = <<SrcOf(asof[LATEST_MONTH_KEY][1])>>],
                           Ok(cached[1].data))
                  ELSE BeforeQueries(reqs[i]))
    /\ UNCHANGED <<db, now, cache, files, orphans, asof, dbChanges>>

\* a latest-month query whose failure leaves a summary entry behind
MutLatestQueryCachesFailure(i) ==
    /\ reqs[i].pc = "latest_query"
    /\ \E r \in {[reqs[i] EXCEPT !.queries = @ + 1]} :
          \E res \in {IF r.up THEN ResolvePeriods(r.payload, StoreRows(db))
                       ELSE Unavailable} :
              /\ Goes(i, IF ~IsOk(res) THEN Raised(r, res)
                         ELSE [r EXCEPT !.pc = "rows_query", !.latest = <<db>>])
              /\ cache' = IF IsOk(res) THEN cache
                          ELSE CacheSet(cache, LATEST_MONTH_KEY,
                                        [_cached_month |-> "", data |-> <<>>],
                                        CACHE_TTL, now)
    /\ UNCHANGED <<db, now, files, orphans, asof, dbChanges>>

\* summary service, line 206 (get_latest_month, lines 127-132): the
\* max-duration-month query
LatestQuery(i) ==
    /\ reqs[i].pc = "latest_query"
    /\ \E r \in {[reqs[i] EXCEPT !.queries = @ + 1]} :
          Goes(i, IF ~r.up THEN Raised(r, Unavailable)
                  ELSE LET res == ResolvePeriods(r.payload, StoreRows(db)) IN
                       IF ~IsOk(res) THEN Raised(r, res)
                       ELSE [r EXCEPT !.pc = "rows_query", !.latest = <<db>>])
    /\ UNCHANGED <<db, now, cache, files, orphans, asof, dbChanges>>

\* the store contents the periods of request r were resolved from
LatestSeen(r) == IF r.latest = <<>> THEN db ELSE r.latest[1]

\* summary service, lines 208-353: the fact query (line 273) and the fold of
\* its rows
RowsQuery(i) ==
    /\ reqs[i].pc = "rows_query"
    /\ \E r \in {[reqs[i] EXCEPT !.queries = @ + 1,
                                 !.latest = <<LatestSeen(reqs[i])>>,
                                 !.src = <<Src(LatestSeen(reqs[i]), db, now)>>]} :
          Goes(i, IF ~r.up THEN Raised(r, Unavailable)
                  ELSE LET built == BuildSummary(r.payload, StoreRows(r.latest[1]),
                                                 StoreRows(db)) IN
                       IF IsOk(built) /\ is_default_latest_month_request(r.payload)
                       THEN [r EXCEPT !.pc = "cache_write", !.body = built.body]
                       ELSE SummaryReturns(r, built))
    /\ UNCHANGED <<db, now, cache, files, orphans, asof, dbChanges>>

\* summary service, lines 355-362: cache.set of the summary entry
CacheWrite(i) ==
    /\ reqs[i].pc = "cache_write"
    /\ cache' = CacheSet(cache, LATEST_MONTH_KEY,
                         SummaryEntry(StoreRows(reqs[i].latest[1]), reqs[i].body),
                         CACHE_TTL, now)
    /\ asof' = [asof EXCEPT ![LATEST_MONTH_KEY] = <<AsOf(reqs[i].src[1], now)>>]
    /\ Goes(i, SummaryReturns([reqs[i] EXCEPT !.wrote = TRUE], Ok(reqs[i].body)))
    /\ UNCHANGED <<db, now, files, orphans, dbChanges>>

\* the requests of rs that hold the file g of file_path open: g = 0 is the
\* file the path names, g >= 1 a file removed from the directory since
Holders(rs, file_path, g) ==
    {j \in DOMAIN rs : rs[j].path = file_path /\ rs[j].fd = <<g>>}

\* the file request r holds open
Inode(r) ==
    IF r.fd[1] = 0 THEN FileAt(files, r.path)
    ELSE CHOOSE o \in orphans : o.k = r.path /\ o.gen = r.fd[1]

\* the removed files once request i has closed its handle and they are `os`:
\* a removed file that no request holds any more is gone
Released(i, os) ==
    IF reqs[i].fd[1] = 0 \/ Holders(reqs, reqs[i].path, reqs[i].fd[1]) # {i} THEN os
    ELSE {o \in os : ~(o.k = reqs[i].path /\ o.gen = reqs[i].fd[1])}

\* the file e once the sheet of df has been written from its start: a
\* longer content keeps its end.  The length of a sheet grows with its rows;
\* of two sheets that differ and have as many rows, either may be the longer.
Overwritten(e, df) ==
    IF e.size < Len(df) \/ (e.size = Len(df) /\ e.v = df)
    THEN {[e EXCEPT !.v = df, !.size = Len(df)]}
    ELSE IF e.size > Len(df) THEN {[e EXCEPT !.v = df]}
    ELSE {[e EXCEPT !.v = df], [e EXCEPT !.v = df, !.size = Len(df) + 1]}

\* download service, line 198 (_write_excel, lines 96-109): the path is
\* chosen and pd.ExcelWriter opens it for writing, which creates the file or
\* empties the one that is there; the request holds the file open
FileOpen(i) ==
    /\ reqs[i].pc = "file_open"
    /\ \E file_path \in {ExportPath(reqs[i].payload, now)} :
          /\ files' = WriteFile(files, file_path, <<>>)
          /\ Goes(i, [reqs[i] EXCEPT !.pc = "file_fill", !.path = file_path,
                                     !.fd = <<0>>])
    /\ UNCHANGED <<db, now, cache, orphans, asof, dbChanges>>

\* _write_excel, lines 109-112: the sheet is written to the file the writer
\* holds open, from its start, when the writer closes; the path names that
\* file unless it has been removed since.  Line 210 returns the path when
\* the shape is not the default one.
FileFill(i) ==
    /\ reqs[i].pc = "file_fill"
    /\ \E e \in Overwritten(Inode(reqs[i]), reqs[i].df) :
          IF reqs[i].fd[1] = 0
          THEN /\ files' = PutFile(files, e)
               /\ orphans' = orphans
          ELSE /\ files' = files
               /\ orphans' = Released(i, (orphans \ {Inode(reqs[i])}) \cup {e})
    /\ Goes(i, IF is_default_latest_month_request(reqs[i].payload)
               THEN [reqs[i] EXCEPT !.pc = "export_write", !.fd = <<>>]
               ELSE [reqs[i] EXCEPT !.pc = "file_stat", !.fd = <<>>,
                                    !.result = <<Ok(reqs[i].path)>>])
    /\ UNCHANGED <<db, now, cache, asof, dbChanges>>

\* download service, lines 200-210: cache.set of the export entry, and the
\* path of line 198 is returned
ExportWrite(i) ==
    /\ reqs[i].pc = "export_write"
    /\ cache' = CacheSet(cache, EXCEL_KEY, ExportEntry(reqs[i].df, reqs[i].path),
                         CACHE_TTL, now)
    /\ asof' = [asof EXCEPT ![EXCEL_KEY] = <<AsOf(reqs[i].src[1], now)>>]
    /\ Goes(i, [reqs[i] EXCEPT !.pc = "file_stat",
                               !.result = <<Ok(reqs[i].path)>>])
    /\ UNCHANGED <<db, now, files, orphans, dbChanges>>

\* what went out for a file: the Content-Length header and the content read
Body(e) == [length |-> e.size, read |-> <<[rows |-> e.v, size |-> e.size]>>]

\* what FileResponse(path=file_path) sends when nothing happens to the file
\* meanwhile: the file, or 500 for the RuntimeError of a path without a file
FileSent(fs, file_path) ==
    IF DictHas(fs, file_path) THEN Ok(Body(FileAt(fs, file_path)))
    ELSE Err(500, "RuntimeError: File at path does not exist.")

\* request i leaves and `sent` is what went out
Leaves(i, sent) ==
    /\ reqs' = Disturbed(Without(reqs, i))
    /\ last' = <<Completed(reqs[i], sent)>>

\* download route, lines 47-54: the FileResponse the route returned stats
\* the path; without a file it raises RuntimeError, answered 500, and with
\* one it sends status 200 and the file's length as Content-Length
FileResponseStat(i) ==
    /\ reqs[i].pc = "file_stat"
    /\ IF DictHas(files, reqs[i].path)
       THEN Goes(i, [reqs[i] EXCEPT !.pc = "file_send",
                                    !.length = FileAt(files, reqs[i].path).size])
       ELSE Leaves(i, FileSent(files, reqs[i].path))
    /\ UNCHANGED <<db, now, cache, files, orphans, asof, dbChanges>>

\* the FileResponse opens the path for reading, the headers being out: when
\* the file is gone the response ends without a body
FileResponseOpen(i) ==
    /\ reqs[i].pc = "file_send"
    /\ IF DictHas(files, reqs[i].path)
       THEN Goes(i, [reqs[i] EXCEPT !.pc = "file_read", !.fd = <<0>>])
       ELSE Leaves(i, Ok([length |-> reqs[i].length, read |-> <<>>]))
    /\ UNCHANGED <<db, now, cache, files, orphans, asof, dbChanges>>

\* the FileResponse reads the file it holds open, a sheet being less than one
\* chunk, sends what it read and closes the file; the request leaves
FileResponseRead(i) ==
    /\ reqs[i].pc = "file_read"
    /\ Leaves(i, Ok([Body(Inode(reqs[i])) EXCEPT !.length = reqs[i].length]))
    /\ orphans' = Released(i, orphans)
    /\ UNCHANGED <<db, now, cache, files, asof, dbChanges>>

\* time passes
Tick ==
    /\ now < MaxTicks * TickSeconds
    /\ now' = now + TickSeconds
    /\ last' = <<>>
    /\ reqs' = Disturbed(reqs)
    /\ UNCHANGED <<db, cache, files, orphans, asof, dbChanges>>

\* the store gains the next n rows of the stream
Inserted(n) ==
    /\ dbChanges < MaxDbChanges
    /\ db.hi + n <= Len(FactStream)
    /\ db' = [db EXCEPT !.hi = @ + n]
    /\ dbChanges' = dbChanges + 1
    /\ last' = <<>>
    /\ reqs' = Disturbed(reqs)
    /\ UNCHANGED <<now, cache, files, orphans, asof>>

\* POST /upload/: the rows of the uploaded sheet that pass validation are
\* added to the store
upload_excel(n) == Inserted(n)

\* POST /upload/correct_error_rows: a row that failed validation is added
\* once corrected
correct_error_rows == Inserted(1)

\* the least positive number that names no removed file of file_path
NextGen(file_path) ==
    LET free == {n \in 1..(Cardinality(orphans) + 1) :
                    \A o \in orphans : ~(o.k = file_path /\ o.gen = n)}
    IN CHOOSE n \in free : \A m \in free : n <= m

\* a file of the export directory is removed from outside: the requests
\* that hold it open keep the file, which has no path any more
FileDelete ==
    /\ \E i \in DOMAIN files :
          \E held \in {Holders(reqs, files[i].k, 0)}, g \in {NextGen(files[i].k)} :
              /\ files' = Without(files, i)
              /\ orphans' = IF held = {} THEN orphans
                            ELSE orphans \cup {[k |-> files[i].k, gen |-> g,
                                                v |-> files[i].v,
                                                size |-> files[i].size]}
              /\ reqs' = [j \in DOMAIN reqs |->
                             IF j \in held
                             THEN [Disturbed(reqs)[j] EXCEPT !.fd = <<g>>]
                             ELSE Disturbed(reqs)[j]]
    /\ last' = <<>>
    /\ UNCHANGED <<db, now, cache, asof, dbChanges>>

\* the steps of the requests in flight
RequestStep ==
    \/ \E i \in DOMAIN reqs : ExportCacheGet(i)
    \/ \E i \in DOMAIN reqs : ExportFileExists(i)
    \/ \E i \in DOMAIN reqs : CacheRead(i)
    \/ \E i \in DOMAIN reqs : LatestQuery(i)
    \/ \E i \in DOMAIN reqs : RowsQuery(i)
    \/ \E i \in DOMAIN reqs : CacheWrite(i)
    \/ \E i \in DOMAIN reqs : FileOpen(i)
    \/ \E i \in DOMAIN reqs : FileFill(i)
    \/ \E i \in DOMAIN reqs : ExportWrite(i)
    \/ \E i \in DOMAIN reqs : FileResponseStat(i)
    \/ \E i \in DOMAIN reqs : FileResponseOpen(i)
    \/ \E i \in DOMAIN reqs : FileResponseRead(i)

\* default-shape requests against a store that may be unreachable, one in
\* flight at a time: a request arrives when none is in flight.  The uploads
\* and the removals of files take place between two requests and between
\* two steps of a request; the clock advances in steps of eight hours, which
\* no request lasts, between two requests.
Next ==
    \/ \E op \in {"summary", "export"}, payload \in DefaultPayloads, up \in BOOLEAN :
          reqs = <<>> /\ Arrive(op, payload, up)
    \/ RequestStep
    \/ reqs = <<>> /\ Tick
    \/ \E n \in 1..MaxRows : upload_excel(n)
    \/ correct_error_rows
    \/ FileDelete

Spec == Init /\ [][Next]_vars

\* requests of every shape against a store that may be unreachable and whose
\* contents stay as they are, one in flight at a time; time passes and
\* files are removed between two requests and between two steps of a request
NextAny ==
    \/ \E op \in {"summary", "export"}, payload \in ServicePayloads, up \in BOOLEAN :
          reqs = <<>> /\ Arrive(op, payload, up)
    \/ RequestStep
    \/ Tick
    \/ FileDelete

SpecAny == Init /\ [][NextAny]_vars

(***************************************************************************)
(* The rollup as a function of the store and the payload: the store starts *)
(* as any window of the stream, the cache stays empty, and each step       *)
(* builds the full summary of one payload.                                 *)
(***************************************************************************)
InitBuild == \E w \in {x \in Windows : x.lo <= x.hi} : Start(w)

BuildStep(payload) ==
    /\ last' = <<[op |-> "build", payload |-> payload,
                  result |-> BuildSummary(payload, StoreRows(db), StoreRows(db))]>>
    /\ UNCHANGED <<db, now, cache, files, orphans, asof, reqs, dbChanges>>

NextBuild == \E payload \in Payloads : BuildStep(payload)

SpecBuild == InitBuild /\ [][NextBuild]_vars

\* the full summary that has just been built, if any
Built == last # <<>> /\ last[1].op = "build" /\ IsOk(last[1].result)

BuiltBody == last[1].result.body

\* the period blocks of a response that hold data
DataBlocks(response) ==
    {response[i].v : i \in {j \in DOMAIN response : "clients" \in DOMAIN response[j].v}}

RECURSIVE SumSeq(_)
SumSeq(xs) == IF xs = <<>> THEN 0 ELSE Head(xs) + SumSeq(Tail(xs))

\* the sum of field f over a list of blocks
SumField(blocks, f) == SumSeq([i \in DOMAIN blocks |-> blocks[i][f]])

DeptSums(dept) ==
    /\ \A t \in ShiftTypeSet : dept["dept_" \o t] = SumField(dept.employees, t)
    /\ dept.dept_total = SumField(dept.employees, "total")

ClientSums(client) ==
    LET depts == DictValues(client.departments) IN
    /\ \A t \in ShiftTypeSet : client["client_" \o t] = SumField(depts, "dept_" \o t)
    /\ client.client_total = SumField(depts, "dept_total")
    /\ \A i \in DOMAIN depts : DeptSums(depts[i])

PeriodSums(block) ==
    LET clients == DictValues(block.clients) IN
    /\ \A t \in ShiftTypeSet : block.month_total[t] = SumField(clients, "client_" \o t)
    /\ block.month_total.total_allowance = SumField(clients, "client_total")
    /\ \A i \in DOMAIN clients : ClientSums(clients[i])

\* C9: in every rollup built by the full summary, for every shift type and at
\* every level, the parent's bucket equals the sum of its children's matching
\* buckets (employees -> department -> client -> period), and likewise
\* dept_total, client_total and total_allowance.
C9_ParentEqualsChildren ==
    Built => \A block \in DataBlocks(BuiltBody) : PeriodSums(block)

\* a built period with two clients, a client with two departments, a
\* department with two employees and shift types with non-zero buckets
C9_Witness ==
    /\ Built
    /\ \E block \in DataBlocks(BuiltBody) :
          /\ Len(block.clients) >= 2
          /\ block.month_total.A > 0 /\ block.month_total.B > 0
          /\ \E i \in DOMAIN block.clients :
                LET client == block.clients[i].v IN
                /\ Len(client.departments) >= 2
                /\ \E j \in DOMAIN client.departments :
                      Len(client.departments[j].v.employees) >= 2

\* the distinct employee ids of a list of departments
DeptEmpIds(dept) == {dept.employees[i].emp_id : i \in DOMAIN dept.employees}

ClientEmpIds(client) ==
    UNION {DeptEmpIds(client.departments[j].v) : j \in DOMAIN client.departments}

PeriodEmpIds(block) ==
    UNION {ClientEmpIds(block.clients[i].v) : i \in DOMAIN block.clients}

HeadCountsDistinct(block) ==
    /\ block.month_total.total_head_count = Cardinality(PeriodEmpIds(block))
    /\ \A i \in DOMAIN block.clients :
          LET client == block.clients[i].v IN
          /\ client.client_head_count = Cardinality(ClientEmpIds(client))
          /\ \A j \in DOMAIN client.departments :
                client.departments[j].v.dept_head_count
                    = Cardinality(DeptEmpIds(client.departments[j].v))

\* C10: in every built rollup the head-counts count distinct employees:
\* dept_head_count the distinct employee ids of the department,
\* client_head_count the distinct employee ids under the client (an employee
\* of two departments of the client counted once), total_head_count the
\* distinct employee ids across all clients of the period.
C10_HeadCountsDistinct ==
    Built => \A block \in DataBlocks(BuiltBody) : HeadCountsDistinct(block)

(***************************************************************************)
(* Properties of the requests that run against the cache.  After a request *)
(* `last` holds it together with the state it started from, and the        *)
(* current state is the state it left.  A request has a state it started   *)
(* from, and a state it left, when no other step was taken while it ran:   *)
(* these properties are about such requests.                               *)
(***************************************************************************)
Req == last[1]

Left == last # <<>> /\ last[1].op \in {"summary", "export"}

Served == Left /\ Req.serial

IsDefault == is_default_latest_month_request(Req.payload)

\* what a request answers when the cache is empty and the store reachable
FreshSummary(req) ==
    client_summary_service(req.payload, NoEntries, StoreRows(req.pre.db),
                           req.pre.now, TRUE)

FreshExport(req) ==
    client_summary_download_service(req.payload, NoEntries, <<>>,
                                    StoreRows(req.pre.db), req.pre.now, TRUE)

\* C1: the response to a default-shape request (full summary or export)
\* equals the response a fresh build with an empty cache returns for the
\* store's contents at the time of the request.
C1_ResponseIsFresh ==
    (Served /\ IsDefault /\ Req.up) =>
        IF Req.op = "summary"
        THEN Req.result = FreshSummary(Req).result
        ELSE /\ Req.result = FreshExport(Req).result
             /\ IsOk(Req.result) =>
                   DictGet(files, Req.result.body)
                       = DictGet(FreshExport(Req).files, Req.result.body)

\* C2: a default-shape full-summary request answered from an entry that was
\* written from the store's present contents (no data-store change and no
\* expiry since the write) returns the output of a fresh build.
C2_HitEqualsFreshBuild ==
    (/\ Served /\ Req.op = "summary" /\ IsDefault /\ Req.hit
     /\ Req.pre.asof[LATEST_MONTH_KEY][1].latest = Req.pre.db
     /\ Req.pre.asof[LATEST_MONTH_KEY][1].db = Req.pre.db)
        => Req.result = FreshSummary(Req).result

\* a cache hit on an entry written from the present store, holding a rollup
C2_Witness ==
    /\ Served /\ Req.op = "summary" /\ IsDefault /\ Req.hit
    /\ Req.pre.asof[LATEST_MONTH_KEY][1].latest = Req.pre.db
    /\ Req.pre.asof[LATEST_MONTH_KEY][1].db = Req.pre.db
    /\ DataBlocks(Req.result.body) # {}

\* C3: a summary entry expires 24 hours after its write time and a read does
\* not extend it: a default-shape request before that time is served from the
\* entry, which stays as it is; a default-shape summary request at or after
\* it is not, queries the store, and when its build succeeds returns the
\* fresh result and writes an entry that expires 24 hours later.
C3_FixedExpiry ==
    /\ cache[LATEST_MONTH_KEY] # <<>> =>
          cache[LATEST_MONTH_KEY][1].expire_time
              = asof[LATEST_MONTH_KEY][1].time + 24 * 60 * 60
    /\ (Served /\ IsDefault /\ Req.pre.cache[LATEST_MONTH_KEY] # <<>>) =>
          LET entry == Req.pre.cache[LATEST_MONTH_KEY][1]
              written == Req.pre.asof[LATEST_MONTH_KEY][1].time
          IN IF Req.pre.now < written + 24 * 60 * 60
             THEN /\ cache[LATEST_MONTH_KEY] = Req.pre.cache[LATEST_MONTH_KEY]
                  /\ Req.op = "summary" =>
                        Req.hit /\ Req.result = Ok(entry.value.data)
             ELSE Req.op = "summary" =>
                    /\ ~Req.hit
                    /\ Req.queries > 0
                    /\ IsOk(Req.result) =>
                          /\ Req.result = FreshSummary(Req).result
                          /\ cache[LATEST_MONTH_KEY] # <<>>
                          /\ cache[LATEST_MONTH_KEY][1].value.data = Req.result.body
                          /\ cache[LATEST_MONTH_KEY][1].expire_time
                                 = Req.pre.now + 24 * 60 * 60

\* a default-shape summary request 24 hours after the write: rebuilt, rewritten
C3_Witness ==
    /\ Served /\ Req.op = "summary" /\ IsDefault
    /\ Req.pre.cache[LATEST_MONTH_KEY] # <<>>
    /\ Req.pre.now = Req.pre.asof[LATEST_MONTH_KEY][1].time + 24 * 60 * 60
    /\ IsOk(Req.result)
    /\ cache[LATEST_MONTH_KEY][1].expire_time = Req.pre.now + 24 * 60 * 60

\* the live entry of a key in the state the request started from
LiveBefore(req, key) == CacheGet(req.pre.cache, key, req.pre.now)

ExportEntryUsable(req) ==
    /\ LiveBefore(req, EXCEL_KEY) # <<>>
    /\ DictHas(req.pre.files, LiveBefore(req, EXCEL_KEY)[1].file_path)

\* a default-shape request that finds an entry it can use
HitsCache(req) ==
    /\ is_default_latest_month_request(req.payload)
    /\ IF req.op = "summary" THEN LiveBefore(req, LATEST_MONTH_KEY) # <<>>
       ELSE ExportEntryUsable(req) \/ LiveBefore(req, LATEST_MONTH_KEY) # <<>>

\* C4: a default-shape request that hits the cache issues no data-store query
\* (so it runs no rollup build) and is answered from the entry, also when the
\* store is unreachable.
C4_HitIssuesNoQuery ==
    (Served /\ HitsCache(Req)) =>
        /\ Req.queries = 0
        /\ Req.hit
        /\ Req.op = "summary" =>
              Req.result = Ok(LiveBefore(Req, LATEST_MONTH_KEY)[1].data)
        /\ (Req.op = "export" /\ ExportEntryUsable(Req)) =>
              Req.result = Ok(LiveBefore(Req, EXCEL_KEY)[1].file_path)

\* hits of both services, one of them with the store unreachable
C4_Witness ==
    /\ Served /\ HitsCache(Req) /\ ~Req.up
    /\ Req.op = "export" /\ ExportEntryUsable(Req)

\* a request that is not default-shape, as the claim lists it: a client
\* mapping, selected_year, selected_months, selected_quarters, start_month,
\* end_month, emp_id or account_manager is present
HasFilter(p) ==
    \/ p.clients.tag = "dict"
    \/ YearTruthy(p.selected_year)
    \/ p.selected_months # <<>>
    \/ p.selected_quarters # <<>>
    \/ p.start_month # ""
    \/ p.end_month # ""
    \/ p.emp_id # ""
    \/ ManagerTruthy(p.account_manager)

\* the outcome of the request had the cache been empty
SameWithoutCache(req) ==
    IF req.op = "summary"
    THEN req.result = client_summary_service(req.payload, NoEntries,
                          StoreRows(req.pre.db), req.pre.now, req.up).result
    ELSE req.result = client_summary_download_service(req.payload, NoEntries,
                          req.pre.files, StoreRows(req.pre.db), req.pre.now,
                          req.up).result

\* C5: a request that is not default-shape never reads a cache entry (it is
\* no hit and its result is the one an empty cache gives) and leaves the
\* default-summary entry and the default-export entry unchanged.
C5_FilteredBypassesCache ==
    (Served /\ HasFilter(Req.payload)) =>
        /\ ~Req.hit
        /\ SameWithoutCache(Req)
        /\ cache = Req.pre.cache

\* a successful filtered export while both entries are live
C5_Witness ==
    /\ Served /\ HasFilter(Req.payload) /\ Req.op = "export" /\ IsOk(Req.result)
    /\ LiveBefore(Req, LATEST_MONTH_KEY) # <<>>
    /\ LiveBefore(Req, EXCEL_KEY) # <<>>

\* C6 (as claimed): a request that ends in an error leaves both cache entries
\* exactly as they were before the request.
C6_ErrorLeavesCache ==
    (Served /\ ~IsOk(Req.result)) => cache = Req.pre.cache

\* the inner full summary of an export request
InnerSummary(req) ==
    client_summary_service(req.payload, req.pre.cache, StoreRows(req.pre.db),
                           req.pre.now, req.up)

\* C6 (amended): a request that ends in an error leaves the default-export
\* entry unchanged, and leaves the default-summary entry unchanged unless it
\* is a default-shape export whose inner full-summary build succeeded: that
\* build has written the summary entry before the export step failed.
C6_ErrorLeavesCacheButInnerWrite ==
    (Served /\ ~IsOk(Req.result)) =>
        /\ cache[EXCEL_KEY] = Req.pre.cache[EXCEL_KEY]
        /\ cache[LATEST_MONTH_KEY] # Req.pre.cache[LATEST_MONTH_KEY] =>
              /\ Req.op = "export"
              /\ IsDefault
              /\ IsOk(InnerSummary(Req).result)
              /\ cache = InnerSummary(Req).cache

\* a default-shape export that fails after its inner summary wrote the entry
C6_Witness ==
    /\ Served /\ ~IsOk(Req.result) /\ Req.op = "export" /\ IsDefault
    /\ cache[LATEST_MONTH_KEY] # Req.pre.cache[LATEST_MONTH_KEY]
    /\ cache[EXCEL_KEY] = Req.pre.cache[EXCEL_KEY]

\* a live export entry whose file is gone
StaleReference(req) ==
    /\ LiveBefore(req, EXCEL_KEY) # <<>>
    /\ ~DictHas(req.pre.files, LiveBefore(req, EXCEL_KEY)[1].file_path)

\* the export request run from the same state without the export entry
AsMiss(req) ==
    client_summary_download_service(req.payload,
        [req.pre.cache EXCEPT ![EXCEL_KEY] = <<>>], req.pre.files,
        StoreRows(req.pre.db), req.pre.now, req.up)

\* C7: a default-shape export whose live export entry references a missing
\* file runs as a cache miss: its result, the files and the summary entry it
\* leaves are those of the same request without the entry, so the reference
\* never makes it fail; when it succeeds the export has been rebuilt, the
\* file exists again and the entry is rewritten with a fresh expiry; when
\* the rebuild fails the entry stays.
C7_StaleReferenceIsMiss ==
    (Served /\ Req.op = "export" /\ IsDefault /\ StaleReference(Req)) =>
        /\ Req.result = AsMiss(Req).result
        /\ files = AsMiss(Req).files
        /\ cache[LATEST_MONTH_KEY] = AsMiss(Req).cache[LATEST_MONTH_KEY]
        /\ ~IsOk(Req.result) => cache[EXCEL_KEY] = Req.pre.cache[EXCEL_KEY]
        /\ IsOk(Req.result) =>
              /\ cache[EXCEL_KEY] = AsMiss(Req).cache[EXCEL_KEY]
              /\ DictHas(files, Req.result.body)
              /\ Req.sent = FileSent(files, Req.result.body)
              /\ cache[EXCEL_KEY] # <<>>
              /\ cache[EXCEL_KEY][1].value.file_path = Req.result.body
              /\ cache[EXCEL_KEY][1].expire_time = Req.pre.now + 24 * 60 * 60

\* a stale reference met some time after the entry was written, rebuilt
C7_Witness ==
    /\ Served /\ Req.op = "export" /\ IsDefault /\ StaleReference(Req)
    /\ Req.pre.cache[EXCEL_KEY][1].expire_time < Req.pre.now + 24 * 60 * 60
    /\ IsOk(Req.result)
    /\ DictHas(files, Req.result.body)


\* the time at which the data of a response served from the cache was read
\* from the store: a cached export file, or else a cached summary
ReadTime(req) ==
    IF req.op = "export" /\ ExportEntryUsable(req)
    THEN req.pre.asof[EXCEL_KEY][1].read
    ELSE req.pre.asof[LATEST_MONTH_KEY][1].read

\* C27: a default-shape response served from the cache (summary or export
\* file) at time t was built from data-store contents read no earlier than
\* t minus 24 hours.
C27_ServedDataAtMostADayOld ==
    (Served /\ IsDefault /\ Req.hit) =>
        ReadTime(Req) >= Req.pre.now - 24 * 60 * 60

(***************************************************************************)
(* The three call shapes as functions of the store and the payload: the    *)
(* store starts as any window of the stream, the cache and the export      *)
(* directory stay empty, and each step runs the full summary, the export   *)
(* and the paginated search on one payload.                                *)
(***************************************************************************)
\* payloads that exercise the period resolution of the three call shapes
PeriodPayloads ==
    { [EmptyPayload EXCEPT !.selected_year = YearStr("2024"),
                           !.selected_months = <<"06">>,
                           !.clients = ClientsDict(<<[k |-> "Acme", v |-> <<"Ops", "QA">>]>>)],
      [EmptyPayload EXCEPT !.selected_year = YearStr("2024"), !.selected_quarters = <<"Q4">>],
      [EmptyPayload EXCEPT !.selected_year = YearStr("2024"), !.selected_quarters = <<"q2">>],
      [EmptyPayload EXCEPT !.selected_year = YearStr("2030")],
      [EmptyPayload EXCEPT !.selected_year = YearInt(2030)],
      [EmptyPayload EXCEPT !.selected_year = YearStr("2023"),
                           !.selected_months = <<"05">>,
                           !.clients = ClientsDict(<<[k |-> " zen", v |-> <<>>]>>)],
      [EmptyPayload EXCEPT !.selected_year = YearStr("2030"), !.selected_months = <<"01">>],
      [EmptyPayload EXCEPT !.selected_year = YearInt(0), !.selected_months = <<"06">>],
      [EmptyPayload EXCEPT !.selected_year = YearStr("2024"), !.selected_months = <<"13">>],
      [EmptyPayload EXCEPT !.selected_year = YearStr("2024"), !.selected_months = <<"6">>],
      [EmptyPayload EXCEPT !.selected_year = YearStr("2024"), !.selected_months = <<"ab">>],
      [EmptyPayload EXCEPT !.selected_year = YearStr("2024"),
                           !.selected_months = <<"05", "06">>],
      [EmptyPayload EXCEPT !.start_month = "2023-12", !.end_month = "2024-06"],
      [EmptyPayload EXCEPT !.start_month = "2023-05", !.end_month = "2023-12"],
      WithField("account_manager", ManagerList(<<"Dee">>)),
      [EmptyPayload EXCEPT !.selected_year = YearStr("2024"),
                           !.selected_quarters = <<"Q2">>,
                           !.clients = ClientsDict(<<[k |-> "zen", v |-> <<"ops">>]>>)],
      [EmptyPayload EXCEPT !.selected_year = YearStr("2024"), !.selected_months = <<"08">>],
      [EmptyPayload EXCEPT !.selected_year = YearStr("2024"), !.selected_quarters = <<"Q3">>],
      [EmptyPayload EXCEPT !.start_month = "2024-06", !.end_month = "2024-08"],
      [EmptyPayload EXCEPT !.start_month = "2024-06"],
      [EmptyPayload EXCEPT !.start_month = "2024-05", !.end_month = "2024-06",
                           !.selected_year = YearStr("2024"),
                           !.selected_quarters = <<"Q2">>],
      [EmptyPayload EXCEPT !.start_month = "2024-05", !.end_month = "2024-06",
                           !.selected_year = YearStr("2024"),
                           !.selected_months = <<"04">>],
      [EmptyPayload EXCEPT !.selected_year = YearStr("2024"),
                           !.selected_months = <<"06">>,
                           !.selected_quarters = <<"Q2">>],
      [EmptyPayload EXCEPT !.selected_year = YearStr("2024"),
                           !.selected_months = <<"06", "05">>] }

ShapePayloads == Payloads \cup PeriodPayloads

ShapeStep(payload) ==
    /\ last' = <<[op |-> "shapes", payload |-> payload,
                  summary |-> client_summary_service(payload, NoEntries, StoreRows(db),
                                                     now, TRUE).result,
                  export |-> client_summary_download_service(payload, NoEntries, <<>>,
                                                             StoreRows(db), now, TRUE),
                  search |-> export_filtered_excel(payload, StoreRows(db), RateTable)]>>
    /\ UNCHANGED <<db, now, cache, files, orphans, asof, reqs, dbChanges>>

NextShapes == \E payload \in ShapePayloads : ShapeStep(payload)

SpecShapes == InitBuild /\ [][NextShapes]_vars

\* the request that has just run in the three call shapes, if any
Shaped == last # <<>> /\ last[1].op = "shapes"

Shape == last[1]

\* the rows of the sheet the export has just written
ShapeSheet == DictGet(Shape.export.files, Shape.export.result.body)

\* the (client, department) pairs a clients filter names
RequestedDepartments(payload) ==
    IF payload.clients.tag # "dict" THEN {}
    ELSE UNION {{<<payload.clients.d[i].k, payload.clients.d[i].v[j]>> :
                    j \in DOMAIN payload.clients.d[i].v} : i \in DOMAIN payload.clients.d}

\* dict access that ignores the case of the key
HasKeyCI(d, k) == \E i \in DOMAIN d : Lower(d[i].k) = Lower(k)

GetCI(d, k) == d[CHOOSE i \in DOMAIN d : Lower(d[i].k) = Lower(k)].v

\* C11: a department the clients filter names is kept in the rollup of every
\* period in which its client appears, with head count 0 and zero totals
\* when no employee of it matches the request, and the export then writes
\* a department-level row with a blank Employee ID for it.
C11_EmptyDepartmentRetained ==
    Shaped /\ IsOk(Shape.summary) =>
        \A i \in DOMAIN Shape.summary.body :
        \A cd \in RequestedDepartments(Shape.payload) :
            LET block == Shape.summary.body[i].v IN
            ("clients" \in DOMAIN block /\ HasKeyCI(block.clients, cd[1])) =>
                LET departments == GetCI(block.clients, cd[1]).departments IN
                /\ HasKeyCI(departments, cd[2])
                /\ LET dept == GetCI(departments, cd[2]) IN
                   dept.employees = <<>> =>
                       /\ dept.dept_head_count = 0
                       /\ dept.dept_total = 0
                       /\ IsOk(Shape.export.result) =>
                              \E r \in DOMAIN ShapeSheet :
                                  /\ ShapeSheet[r].Period = Shape.summary.body[i].k
                                  /\ Lower(ShapeSheet[r].Department) = Lower(cd[2])
                                  /\ ShapeSheet[r]["Employee ID"] = ""

\* the request filters on nothing but the period
PeriodOnly(p) ==
    /\ p.emp_id = "" /\ p.client = "" /\ p.department = ""
    /\ ~ClientsTruthy(p.clients) /\ ~ManagerTruthy(p.account_manager)

\* selected_year is a four-digit string naming a year in (0, current year]
YearInRange(p) ==
    /\ p.selected_year.tag = "str"
    /\ Len(p.selected_year.s) = 4 /\ IsDigits(p.selected_year.s)
    /\ ParseNat(p.selected_year.s) \in 1..Today.year

\* the request selects its period by quarters of a year in range, with no
\* month list and no range beside them
QuarterRequest(p) ==
    /\ YearInRange(p)
    /\ p.selected_quarters # <<>>
    /\ \A i \in DOMAIN p.selected_quarters :
           Upper(p.selected_quarters[i]) \in {"Q1", "Q2", "Q3", "Q4"}
    /\ p.selected_months = <<>> /\ p.start_month = "" /\ p.end_month = ""

\* the three months of quarter token "Qn" in the given year
QuarterDates(year, q) ==
    {Date(year, m) : m \in (3 * DigitVal(SubSeq(q, 2, 2)) - 2)..(3 * DigitVal(SubSeq(q, 2, 2)))}

\* the duration months of the facts in the store
StoredMonths == {StoreRows(db)[i].duration_month : i \in DOMAIN StoreRows(db)}

\* every month of the quarter has started
QuarterPast(year, q) == \A d \in QuarterDates(year, q) : DateLE(d, Today)

\* the statuses the three call shapes answered with
ShapeStatuses ==
    {Shape.summary.status, Shape.export.result.status, Shape.search.status}

\* C12: a request for a quarter whose three months are all past or current
\* and of which the store does not hold all three months fails with
\* not-found in every call shape; no partial quarter is returned.
C12_NoPartialQuarter ==
    (/\ Shaped /\ QuarterRequest(Shape.payload) /\ PeriodOnly(Shape.payload)
     /\ \A i \in DOMAIN Shape.payload.selected_quarters :
            QuarterPast(ParseNat(Shape.payload.selected_year.s),
                        Shape.payload.selected_quarters[i])
     /\ \E i \in DOMAIN Shape.payload.selected_quarters :
            ~(QuarterDates(ParseNat(Shape.payload.selected_year.s),
                           Shape.payload.selected_quarters[i]) \subseteq StoredMonths))
    => ShapeStatuses = {404}

\* C13: a request that selects a quarter all of whose months lie after the
\* current month is rejected with a validation error by the full summary,
\* the export and the paginated search.
C13_UnstartedQuarterRejected ==
    (/\ Shaped /\ QuarterRequest(Shape.payload)
     /\ \E i \in DOMAIN Shape.payload.selected_quarters :
            \A d \in QuarterDates(ParseNat(Shape.payload.selected_year.s),
                                  Shape.payload.selected_quarters[i]) :
                ~DateLE(d, Today))
    => ShapeStatuses = {400}

\* the request selects its period by start_month and end_month alone, both
\* written YYYY-MM
RangeRequest(p) ==
    /\ MatchesYYYYMM(p.start_month) /\ ValidYYYYMM(p.start_month)
    /\ MatchesYYYYMM(p.end_month) /\ ValidYYYYMM(p.end_month)
    /\ ~YearTruthy(p.selected_year)
    /\ p.selected_months = <<>> /\ p.selected_quarters = <<>>

\* C14: a request whose start_month is later than its end_month, neither of
\* them in the future, fails with a validation error in the full summary,
\* the export and the paginated search.
C14_ReversedRangeRejected ==
    (/\ Shaped /\ RangeRequest(Shape.payload)
     /\ ~DateLE(parse_yyyy_mm(Shape.payload.start_month).body,
                parse_yyyy_mm(Shape.payload.end_month).body)
     /\ DateLE(parse_yyyy_mm(Shape.payload.start_month).body, Today))
    => ShapeStatuses = {400}

\* selected_year names an integer outside (0, current year]
YearOutOfRange(y) ==
    \/ y.tag = "int" /\ y.n \notin 1..Today.year
    \/ y.tag = "str" /\ IsOk(IntOfStr(y.s)) /\ IntOfStr(y.s).body \notin 1..Today.year

\* the details of the year-range errors of the two services
YearRangeDetails ==
    {"selected_year must be greater than 0", "selected_year cannot be in the future",
     "selected_year must be a 4-digit year (YYYY)", "Future year cannot be selected"}

\* C15: a request whose selected_year is zero, negative or a future year
\* fails with a year-range validation error in the full summary and in the
\* paginated search, whatever else the payload holds.
C15_YearOutOfRangeRejected ==
    Shaped /\ YearOutOfRange(Shape.payload.selected_year) =>
        /\ Shape.summary.status = 400 /\ Shape.summary.detail \in YearRangeDetails
        /\ Shape.search.status = 400 /\ Shape.search.detail \in YearRangeDetails

\* a two-digit month 01..12
TwoDigitMonth(token) == Len(token) = 2 /\ IsDigits(token) /\ ParseNat(token) \in 1..12

\* C16: a request that selects months of a year in range, one of the
\* tokens not being a two-digit month 01..12, fails with a validation
\* error in the full summary and in the paginated search.
C16_MonthTokenRejected ==
    (/\ Shaped /\ YearInRange(Shape.payload)
     /\ Shape.payload.start_month = "" /\ Shape.payload.end_month = ""
     /\ \E i \in DOMAIN Shape.payload.selected_months :
            ~TwoDigitMonth(Shape.payload.selected_months[i]))
    => Shape.summary.status = 400 /\ Shape.search.status = 400

\* the request names no period and no other filter
NoDateFilter(p) ==
    /\ PeriodOnly(p) /\ ~YearTruthy(p.selected_year)
    /\ p.selected_months = <<>> /\ p.selected_quarters = <<>>
    /\ p.start_month = "" /\ p.end_month = ""

\* the greatest duration month in the store, formatted
LatestStored == FormatYM(CHOOSE d \in StoredMonths : \A e \in StoredMonths : DateLE(e, d))

\* C17: a request with no date filter fails with not-found in every call
\* shape when the store holds no fact, and otherwise resolves, in every
\* call shape, to the greatest duration month in the store: the summary has
\* that single period, the export does not answer not-found and its rows
\* are of that period, and the search returns employees of that month.
C17_DefaultIsLatestStored ==
    Shaped /\ NoDateFilter(Shape.payload) =>
        IF StoredMonths = {} THEN ShapeStatuses = {404}
        ELSE /\ IsOk(Shape.summary)
             /\ DictKeys(Shape.summary.body) = <<LatestStored>>
             /\ Shape.export.result.status # 404
             /\ IsOk(Shape.export.result) =>
                    \A r \in DOMAIN ShapeSheet : ShapeSheet[r].Period = LatestStored
             /\ IsOk(Shape.search)
             /\ \A r \in DOMAIN Shape.search.body.data.employees :
                    Shape.search.body.data.employees[r].duration_month = LatestStored

\* the rate of a shift type in a payroll year, 0 when the table has none
YearRate(shift_type, year) ==
    IF \E i \in DOMAIN RateTable :
           RateTable[i].shift_type = shift_type /\ RateTable[i].payroll_year = year
    THEN RateTable[CHOOSE i \in DOMAIN RateTable :
           RateTable[i].shift_type = shift_type /\ RateTable[i].payroll_year = year].amount
    ELSE 0

\* the allowance of a list of facts, each at the rates of its own year
AllowanceOf(facts) ==
    SumSeq([i \in DOMAIN facts |->
        SumSeq([j \in DOMAIN facts[i].maps |->
            facts[i].maps[j].days
              * YearRate(facts[i].maps[j].shift_type, facts[i].duration_month.year)])])

\* the stored facts of the months from..to
FactsBetween(from, to) ==
    SelectSeq(StoreRows(db), LAMBDA a :
        DateLE(from, a.duration_month) /\ DateLE(a.duration_month, to))

\* the request is a well-ordered range of months, none in the future
OrderedRange(p) ==
    /\ RangeRequest(p) /\ PeriodOnly(p)
    /\ DateLE(parse_yyyy_mm(p.start_month).body, parse_yyyy_mm(p.end_month).body)
    /\ DateLE(parse_yyyy_mm(p.end_month).body, Today)

\* the sum of the period totals of a summary
SummaryAllowance(response) ==
    SumSeq([i \in DOMAIN response |->
        IF "clients" \in DOMAIN response[i].v
        THEN response[i].v.month_total.total_allowance ELSE 0])

\* C18: for a range of months, the total allowance the full summary and the
\* paginated search report is the sum, over the stored facts of the range,
\* of days times the rate of the pair (shift type, year of the fact).
C18_RateOfFactYear ==
    Shaped /\ OrderedRange(Shape.payload) =>
        LET expected == AllowanceOf(FactsBetween(
                            parse_yyyy_mm(Shape.payload.start_month).body,
                            parse_yyyy_mm(Shape.payload.end_month).body))
        IN /\ IsOk(Shape.summary) => SummaryAllowance(Shape.summary.body) = expected
           /\ IsOk(Shape.search) =>
                  DictGet(Shape.search.body.shift_details, "total_allowance") = expected

\* a requested period: its key and the months it covers
Period(key, dates) == [k |-> key, dates |-> dates]

\* the months from..to
RangeDates(from, to) ==
    {d \in {Date(y, m) : y \in from.year..to.year, m \in 1..12} :
        DateLE(from, d) /\ DateLE(d, to)}

\* the label of a quarter of a year
QuarterLabel(year, q) ==
    LET first == 3 * DigitVal(SubSeq(q, 2, 2)) - 2
    IN FormatYM(Date(year, first)) \o " - " \o FormatYM(Date(year, first + 2))

\* the periods a request asks for: the range if start_month and end_month
\* are set, else the selected months, else the selected quarters, else the
\* greatest stored month
RequestedPeriods(p) ==
    IF p.start_month # "" /\ p.end_month # ""
    THEN {Period(FormatYM(d), {d}) :
             d \in RangeDates(parse_yyyy_mm(p.start_month).body,
                              parse_yyyy_mm(p.end_month).body)}
    ELSE IF p.selected_months # <<>>
    THEN {Period(FormatYM(Date(IntOfYear(p.selected_year).body,
                               IntOfStr(p.selected_months[i]).body)),
                 {Date(IntOfYear(p.selected_year).body,
                       IntOfStr(p.selected_months[i]).body)}) :
             i \in DOMAIN p.selected_months}
    ELSE IF p.selected_quarters # <<>>
    THEN {Period(QuarterLabel(IntOfYear(p.selected_year).body,
                              Strip(Upper(p.selected_quarters[i]))),
                 QuarterDates(IntOfYear(p.selected_year).body,
                              Strip(Upper(p.selected_quarters[i])))) :
             i \in DOMAIN p.selected_quarters}
    ELSE {Period(LatestStored,
                 {d \in StoredMonths : \A e \in StoredMonths : DateLE(e, d)})}

\* some stored fact with a shift, of one of the months, passes the filters
Matched(p, dates) ==
    \E i \in DOMAIN StoreRows(db) :
        LET a == StoreRows(db)[i] IN
        /\ a.maps # <<>> /\ a.duration_month \in dates
        /\ ClientFilter(a, normalize_clients(p.clients).body.normalized_clients)
        /\ EmpFilter(a, p.emp_id)
        /\ ManagerFilter(a, p.account_manager)

\* C19: a successful full summary has exactly the requested periods as its
\* keys; a period with a matching fact maps to a block of clients and
\* month_total, any other to {message: "No data found for <period>"}.
C19_EntryPerRequestedPeriod ==
    Shaped /\ IsOk(Shape.summary) =>
        /\ {Shape.summary.body[i].k : i \in DOMAIN Shape.summary.body}
               = {r.k : r \in RequestedPeriods(Shape.payload)}
        /\ \A r \in RequestedPeriods(Shape.payload) :
           \A i \in DOMAIN Shape.summary.body :
               Shape.summary.body[i].k = r.k =>
                   IF Matched(Shape.payload, r.dates)
                   THEN DOMAIN Shape.summary.body[i].v = {"clients", "month_total"}
                   ELSE Shape.summary.body[i].v = NoData(r.k)

\* the rows of a sheet are in ascending order of (Period, Client,
\* Department, Employee ID)
SheetSorted(sheet) ==
    \A i, j \in DOMAIN sheet :
        i < j =>
            LET x == sheet[i]
                y == sheet[j]
            IN ~(\/ StrLT(y.Period, x.Period)
                 \/ y.Period = x.Period /\ StrLT(y.Client, x.Client)
                 \/ y.Period = x.Period /\ y.Client = x.Client
                      /\ StrLT(y.Department, x.Department)
                 \/ y.Period = x.Period /\ y.Client = x.Client
                      /\ y.Department = x.Department
                      /\ StrLT(y["Employee ID"], x["Employee ID"]))

\* C20: whenever the full summary of a request holds data, quarter
\* selections included, the export of the same request succeeds and the
\* rows of its sheet are sorted ascending by (period, client, department,
\* employee id).
C20_ExportSucceedsSorted ==
    (Shaped /\ IsOk(Shape.summary) /\ DataBlocks(Shape.summary.body) # {})
    => IsOk(Shape.export.result) /\ SheetSorted(ShapeSheet)

\* selected_year names a year after the current one, as a JSON number or as
\* a four-digit string
FutureYear(p) ==
    \/ p.selected_year.tag = "int" /\ p.selected_year.n > Today.year
    \/ /\ p.selected_year.tag = "str"
       /\ Len(p.selected_year.s) = 4 /\ IsDigits(p.selected_year.s)
       /\ ParseNat(p.selected_year.s) > Today.year

\* the current year is selected with months 01..12, one of them after the
\* current month
FutureMonth(p) ==
    /\ p.selected_year = YearStr(ToString(Today.year))
    /\ \A i \in DOMAIN p.selected_months : TwoDigitMonth(p.selected_months[i])
    /\ \E i \in DOMAIN p.selected_months : ParseNat(p.selected_months[i]) > Today.month

\* the request is a range that ends after the current month
FutureRange(p) ==
    RangeRequest(p) /\ ~DateLE(parse_yyyy_mm(p.end_month).body, Today)

\* C22: the paginated search rejects with a validation error a request that
\* selects a future year, a month of the current year after the current
\* month, or a range that ends after the current month, and none of the
\* employee records of a successful response is of a month after the
\* current one, whatever months the store holds.
C22_NoFuturePeriods ==
    Shaped =>
        /\ (\/ FutureYear(Shape.payload)
            \/ FutureMonth(Shape.payload)
            \/ FutureRange(Shape.payload)) => Shape.search.status = 400
        /\ IsOk(Shape.search) =>
               \A r \in DOMAIN Shape.search.body.data.employees :
                   DateLE(parse_yyyy_mm(
                              Shape.search.body.data.employees[r].duration_month).body,
                          Today)

\* the payload with the period fields of lower priority removed: with
\* start_month and end_month, no months and no quarters; else with months,
\* no quarters and no half of a range; else no half of a range
Preferred(p) ==
    IF p.start_month # "" /\ p.end_month # ""
    THEN [p EXCEPT !.selected_months = <<>>, !.selected_quarters = <<>>]
    ELSE IF p.selected_months # <<>>
    THEN [p EXCEPT !.selected_quarters = <<>>, !.start_month = "", !.end_month = ""]
    ELSE IF p.selected_quarters # <<>>
    THEN [p EXCEPT !.start_month = "", !.end_month = ""]
    ELSE [p EXCEPT !.start_month = "", !.end_month = ""]

\* C23: in each call shape a request is answered as the request without its
\* period fields of lower priority: the range first, then year and months,
\* then year and quarters, then the default latest month.
C23_OnePriorityOrder ==
    Shaped =>
        /\ Shape.summary
               = client_summary_service(Preferred(Shape.payload), NoEntries,
                                        StoreRows(db), now, TRUE).result
        /\ Shape.export.result
               = client_summary_download_service(Preferred(Shape.payload), NoEntries,
                                                 <<>>, StoreRows(db), now, TRUE).result
        /\ Shape.search
               = export_filtered_excel(Preferred(Shape.payload), StoreRows(db), RateTable)

\* C25: the period keys of a successful full summary are in ascending
\* order, whatever the order of selected_months or selected_quarters.
C25_PeriodsAscending ==
    Shaped /\ IsOk(Shape.summary) =>
        \A i, j \in DOMAIN Shape.summary.body :
            i < j => StrLT(Shape.summary.body[i].k, Shape.summary.body[j].k)

\* the dates a period key of the response stands for: one month, or the
\* months of a quarter label "YYYY-MM - YYYY-MM"
DatesOfKey(k) ==
    IF Len(k) = 7 THEN {parse_yyyy_mm(k).body}
    ELSE RangeDates(parse_yyyy_mm(SubSeq(k, 1, 7)).body,
                    parse_yyyy_mm(SubSeq(k, 11, 17)).body)

\* the clients filter of a payload as the list of its entries
FilterEntries(p) == IF p.clients.tag = "dict" THEN p.clients.d ELSE <<>>

RawName(s) == IF Strip(s) = "" THEN "UNKNOWN" ELSE Strip(s)

\* the name a stored client is displayed under: the spelling of the filter
\* entry it equals up to letter case, or its raw trimmed value
DisplayClient(p, a) ==
    LET f == FilterEntries(p)
        hits == {i \in DOMAIN f : Lower(f[i].k) = Lower(a.client)}
    IN IF hits = {} THEN RawName(a.client)
       ELSE f[CHOOSE i \in hits : \A j \in hits : j <= i].k

DisplayDept(p, a) ==
    LET f == FilterEntries(p)
        hits == {ij \in UNION {{<<i, j>> : j \in DOMAIN f[i].v} : i \in DOMAIN f} :
                    /\ Lower(f[ij[1]].k) = Lower(a.client)
                    /\ Lower(f[ij[1]].v[ij[2]]) = Lower(a.department)}
    IN IF hits = {} THEN RawName(a.department)
       ELSE LET ij == CHOOSE x \in hits : \A y \in hits :
                          y[1] < x[1] \/ (y[1] = x[1] /\ y[2] <= x[2])
            IN f[ij[1]].v[ij[2]]

\* the stored facts that reach the block of a period key
FactsOfKey(p, k) ==
    {a \in {StoreRows(db)[i] : i \in DOMAIN StoreRows(db)} :
        /\ a.maps # <<>> /\ a.duration_month \in DatesOfKey(k)
        /\ ClientFilter(a, normalize_clients(p.clients).body.normalized_clients)
        /\ EmpFilter(a, p.emp_id)
        /\ ManagerFilter(a, p.account_manager)}

\* the <<client, department>> nodes of a block that hold an employee
NamedNodes(block) ==
    UNION {{<<block.clients[c].k, block.clients[c].v.departments[d].k>> :
               d \in {x \in DOMAIN block.clients[c].v.departments :
                         block.clients[c].v.departments[x].v.employees # <<>>}} :
           c \in DOMAIN block.clients}

\* C26: client and department names are matched without regard to letter
\* case and displayed canonically: in every block of a summary the nodes that
\* hold employees are exactly the display names of the stored facts that
\* reach the block, where a stored name equal to a filter name up to letter
\* case is displayed under the filter's spelling (so stored names differing
\* only in case share one node) and a stored name without a filter entry is
\* displayed as its raw trimmed value, or as "UNKNOWN" when that is empty
C26_CanonicalNames ==
    Shaped /\ IsOk(Shape.summary) =>
        \A i \in DOMAIN Shape.summary.body :
            LET block == Shape.summary.body[i].v IN
            "clients" \in DOMAIN block =>
                NamedNodes(block) =
                    {<<DisplayClient(Shape.payload, a), DisplayDept(Shape.payload, a)>> :
                        a \in FactsOfKey(Shape.payload, Shape.summary.body[i].k)}

\* the employee entries of a summary, each with its period, client and
\* department
SummaryEmployees(response) ==
    UNION {UNION {UNION {
        {[Period |-> response[i].k,
          Client |-> response[i].v.clients[c].k,
          Department |-> response[i].v.clients[c].v.departments[d].k,
          emp_id |-> response[i].v.clients[c].v.departments[d].v.employees[e].emp_id] :
            e \in DOMAIN response[i].v.clients[c].v.departments[d].v.employees} :
        d \in DOMAIN response[i].v.clients[c].v.departments} :
        c \in DOMAIN response[i].v.clients} :
        i \in {j \in DOMAIN response : "clients" \in DOMAIN response[j].v}}

\* C29: for any filter payload the export holds an employee row for every
\* employee entry of the full summary of the same payload: the export's own
\* emp_id and account_manager filtering drops no employee the summary kept.
C29_ExportKeepsSummaryEmployees ==
    (Shaped /\ IsOk(Shape.summary) /\ SummaryEmployees(Shape.summary.body) # {}) =>
        /\ IsOk(Shape.export.result)
        /\ \A x \in SummaryEmployees(Shape.summary.body) :
               \E r \in DOMAIN ShapeSheet :
                   /\ ShapeSheet[r].Period = x.Period
                   /\ ShapeSheet[r].Client = x.Client
                   /\ ShapeSheet[r].Department = x.Department
                   /\ ShapeSheet[r]["Employee ID"] = x.emp_id

\* C30: in every rollup built by client_summary_service each client block
\* has at least one department and each department block has at least one
\* employee (dept_head_count >= 1), so the export never emits a
\* department-level row with a blank Employee ID.
C30_NoEmptyNode ==
    (Shaped /\ IsOk(Shape.summary)) =>
        /\ \A block \in DataBlocks(Shape.summary.body) :
           \A c \in DOMAIN block.clients :
               /\ block.clients[c].v.departments # <<>>
               /\ \A d \in DOMAIN block.clients[c].v.departments :
                      /\ block.clients[c].v.departments[d].v.employees # <<>>
                      /\ block.clients[c].v.departments[d].v.dept_head_count >= 1
        /\ IsOk(Shape.export.result) =>
               \A r \in DOMAIN ShapeSheet : ShapeSheet[r]["Employee ID"] # ""

\* a rollup and its export for a filter that names a department without
\* stored facts next to one with facts
C30_Witness ==
    /\ Shaped /\ IsOk(Shape.summary) /\ IsOk(Shape.export.result)
    /\ Cardinality(RequestedDepartments(Shape.payload)) = 2
    /\ \E block \in DataBlocks(Shape.summary.body) :
       \E c \in DOMAIN block.clients :
           /\ Len(block.clients[c].v.departments) = 1
           /\ block.clients[c].v.departments[1].v.dept_head_count = 2
    /\ Len(ShapeSheet) = 2

(***************************************************************************)
(* month_range as a function: the inputs are a month and a month a few     *)
(* months later, near a year boundary of this decade or at the end of the  *)
(* calendar.                                                               *)
(***************************************************************************)
MaxSpan == 14

\* the number of the month of a date, counted from year 0
MonthIndex(d) == d.year * 12 + (d.month - 1)

\* the date of a month number
DateOfIndex(n) == Date(n \div 12, (n % 12) + 1)

\* first months of the ranges
RangeStarts == {Date(y, m) : y \in {2023, 9998, 9999}, m \in 1..12}

RangeInput(start, end) ==
    /\ db = Window(0, 0) /\ now = 0 /\ cache = NoEntries /\ files = <<>> /\ orphans = {}
    /\ asof = NoEntries /\ reqs = <<>> /\ dbChanges = 0
    /\ last = <<[op |-> "months", start |-> start, end |-> end]>>

\* a range of at most MaxSpan + 1 months that ends by 9999-12, the last
\* month a date can hold
InitRange ==
    \E start \in RangeStarts, n \in 0..MaxSpan :
        /\ MonthIndex(start) + n <= MonthIndex(Date(9999, 12))
        /\ RangeInput(start, DateOfIndex(MonthIndex(start) + n))

RangeStep ==
    /\ last # <<>> /\ last[1].op = "months"
    /\ last' = <<[op |-> "range", start |-> last[1].start, end |-> last[1].end,
                  result |-> month_range(last[1].start, last[1].end)]>>
    /\ UNCHANGED <<db, now, cache, files, orphans, asof, reqs, dbChanges>>

SpecRange == InitRange /\ [][RangeStep]_vars

\* month_range has just been applied
Ranged == last # <<>> /\ last[1].op = "range"

\* C24: for start <= end, month_range(start, end) returns a list that
\* begins with start, ends with end, holds
\* (end.year - start.year) * 12 + (end.month - start.month) + 1 months and
\* in which each month is the month after the one before it, across a
\* December/January boundary too.
C24_MonthRangeContiguous ==
    Ranged /\ DateLE(last[1].start, last[1].end) =>
        /\ IsOk(last[1].result)
        /\ LET months == last[1].result.body IN
           /\ Len(months) = (last[1].end.year - last[1].start.year) * 12
                                + (last[1].end.month - last[1].start.month) + 1
           /\ months[1] = last[1].start
           /\ months[Len(months)] = last[1].end
           /\ \A i \in 1..(Len(months) - 1) :
                  MonthIndex(months[i + 1]) = MonthIndex(months[i]) + 1

(***************************************************************************)
(* Paging through the search: the store is any window of the stream, and   *)
(* each step sends one filter payload with an offset and a page size, then *)
(* the same payload page after page from offset 0, then once with a page   *)
(* as large as the stream.                                                 *)
(***************************************************************************)
MaxStart == 3

MaxLimit == 2

\* the filters a client pages through
PagedPayloads ==
    { EmptyPayload,
      [EmptyPayload EXCEPT !.start_month = "2023-12", !.end_month = "2024-06"],
      [EmptyPayload EXCEPT !.selected_year = YearStr("2024"),
                           !.selected_months = <<"06", "04">>, !.emp_id = "e2"] }

\* the search of `payload` at offset `start` with page size `limit`
SearchPage(payload, start, limit) ==
    export_filtered_excel([payload EXCEPT !.start = start, !.limit = limit],
                          StoreRows(db), RateTable)

PagingStep(payload, start, limit) ==
    /\ last' = <<[op |-> "paging", payload |-> payload, start |-> start, limit |-> limit,
                  page |-> SearchPage(payload, start, limit),
                  pages |-> [k \in 1..(Len(FactStream) \div limit + 1) |->
                                SearchPage(payload, (k - 1) * limit, limit)],
                  whole |-> SearchPage(payload, 0, Len(FactStream))]>>
    /\ UNCHANGED <<db, now, cache, files, orphans, asof, reqs, dbChanges>>

NextPaging ==
    \E payload \in PagedPayloads, start \in 0..MaxStart, limit \in 1..MaxLimit :
        PagingStep(payload, start, limit)

SpecPaging == InitBuild /\ [][NextPaging]_vars

\* a client has just paged through a search
Paged == last # <<>> /\ last[1].op = "paging"

Paging == last[1]

\* the counts and totals of a search response
Totals(response) ==
    [total_records |-> response.body.total_records,
     shift_details |-> response.body.shift_details]

RECURSIVE Concat(_)
Concat(lists) == IF lists = <<>> THEN <<>> ELSE Head(lists) \o Concat(Tail(lists))

\* C21: every page of a search answers with the status of the search with
\* one page for all rows; when that is a success, every page reports the
\* same total_records, headcount and shift totals as it, the employees of
\* the page at offset start are its employees start+1 .. start+limit (as
\* far as there are), and the pages at offsets 0, limit, 2*limit, ... put
\* end to end are its employees, each once.
C21_PagesPartitionRows ==
    Paged =>
        /\ Paging.page.status = Paging.whole.status
        /\ \A k \in DOMAIN Paging.pages : Paging.pages[k].status = Paging.whole.status
        /\ IsOk(Paging.whole) =>
            LET all == Paging.whole.body.data.employees IN
            /\ Len(all) = Paging.whole.body.total_records
            /\ Totals(Paging.page) = Totals(Paging.whole)
            /\ \A k \in DOMAIN Paging.pages :
                   Totals(Paging.pages[k]) = Totals(Paging.whole)
            /\ Paging.page.body.data.employees
                   = [i \in 1..(IF Paging.start >= Len(all) THEN 0
                                ELSE IF Paging.start + Paging.limit <= Len(all)
                                THEN Paging.limit
                                ELSE Len(all) - Paging.start) |->
                         all[Paging.start + i]]
            /\ Concat([k \in DOMAIN Paging.pages |->
                          Paging.pages[k].body.data.employees]) = all

\* a page from the middle of a listing longer than the page has been served
C21_Witness ==
    /\ Paged /\ IsOk(Paging.whole)
    /\ Paging.start > 0
    /\ Paging.whole.body.total_records > Paging.start + Paging.limit
    /\ Len(Paging.page.body.data.employees) = Paging.limit
    /\ Paging.limit > 1

(***************************************************************************)
(* Concurrent default-shape requests: up to NumReqs requests in flight,    *)
(* their steps interleaved with one another, with the uploads and with the *)
(* removal of files, against a store that answers every query.  The clock  *)
(* stands still: no entry expires while the requests run.                  *)
(***************************************************************************)
NextConc ==
    \/ \E op \in {"summary", "export"}, payload \in DefaultPayloads :
          Arrive(op, payload, TRUE)
    \/ RequestStep
    \/ \E n \in 1..MaxRows : upload_excel(n)
    \/ correct_error_rows
    \/ FileDelete

SpecConc == Init /\ [][NextConc]_vars

\* one build of each service from an empty cache and an empty export
\* directory, on the store as it is
SingleSummary == client_summary_service(EmptyPayload, NoEntries, StoreRows(db), now, TRUE)

SingleExport ==
    client_summary_download_service(EmptyPayload, NoEntries, <<>>, StoreRows(db), now, TRUE)

\* the response of a single build: the summary, or the file the export wrote
SingleResponse(op) ==
    IF op = "summary" THEN SingleSummary.result
    ELSE IF ~IsOk(SingleExport.result) THEN SingleExport.result
    ELSE FileSent(SingleExport.files, SingleExport.result.body)

\* the file of an export was removed from outside while the response was on
\* its way: the response is 500, or 200 without a body
FileRemoved(sent) == IF IsOk(sent) THEN sent.body.read = <<>> ELSE TRUE

\* the value of the entry under `key`, <<>> if there is none
EntryValue(c, key) == IF c[key] = <<>> THEN <<>> ELSE <<c[key][1].value>>

\* C8: while the data store has not changed, in every interleaving of the
\* steps of concurrent default-shape requests every request returns the
\* response of a single build (so all summaries agree and all exports agree;
\* an export whose file was removed from outside is set aside), and once the
\* requests have left each cache entry holds what a single build writes.
C8_ConcurrentRequestsAgree ==
    dbChanges = 0 =>
        /\ Left => \/ Req.sent = SingleResponse(Req.op)
                   \/ Req.op = "export" /\ IsOk(Req.result) /\ FileRemoved(Req.sent)
        /\ reqs = <<>> =>
              /\ cache[LATEST_MONTH_KEY] # <<>> =>
                    EntryValue(cache, LATEST_MONTH_KEY)
                        = EntryValue(SingleSummary.cache, LATEST_MONTH_KEY)
              /\ cache[EXCEL_KEY] # <<>> =>
                    EntryValue(cache, EXCEL_KEY) = EntryValue(SingleExport.cache, EXCEL_KEY)

\* the summary entries single builds write from the store as it was before
\* its latest change (an upload or a correction added rows at the end)
OlderSummaries ==
    { EntryValue(client_summary_service(EmptyPayload, NoEntries,
                     StoreRows([db EXCEPT !.hi = h]), now, TRUE).cache,
                 LATEST_MONTH_KEY) : h \in (db.lo + 1)..(db.hi - 1) }

\* the store has changed, and the entry holds the build from its new contents
HoldsNewer(c) ==
    /\ dbChanges > 0
    /\ EntryValue(c, LATEST_MONTH_KEY) # <<>>
    /\ EntryValue(c, LATEST_MONTH_KEY) = EntryValue(SingleSummary.cache, LATEST_MONTH_KEY)

\* C28: when concurrent default-shape requests are interleaved with a
\* data-store change, the cache never regresses: once the summary entry holds
\* the result built from the newer store contents, no step replaces it with
\* a result built from the older contents.
C28_CacheNeverRegresses ==
    [][HoldsNewer(cache) =>
          \/ EntryValue(cache', LATEST_MONTH_KEY) = EntryValue(cache, LATEST_MONTH_KEY)
          \/ EntryValue(cache', LATEST_MONTH_KEY) \notin OlderSummaries]_vars
====
